---- MODULE Spec2Model ----
(***************************************************************************)
(* DocuMind-RAG: the index lifecycle (main.py), the index build            *)
(* (src/indexer.py, src/vectorstore/faiss_store.py, src/ingestion) and the *)
(* query path (main.py, src/pipeline.py).                                  *)
(*                                                                         *)
(* One event loop runs the coroutines of main.py; build_index and the      *)
(* RAGPipeline constructor run in worker threads (asyncio.to_thread), the  *)
(* watchdog observer calls _PDFWatchHandler from its own thread.  Code     *)
(* between two awaits of a coroutine is one atomic action.                 *)
(***************************************************************************)
EXTENDS Integers, Sequences, FiniteSets, TLC

\* ---------------------------------------------------------------- bounds
MaxClock   == 10    \* the monotonic clock reads COOLDOWN..MaxClock (seconds)
MaxPending == 2     \* _rebuild_and_swap coroutines alive at one time
MaxEvents  == 4     \* events the watcher history records
MaxQueries == 1     \* concurrently open /query (or /ask) requests
MaxQuestion == 3    \* characters of a question
documind_max_question_length == 2   \* the configured limit (config.py 62-67)
MaxRows == 2        \* rows a store holds
MaxBatch == 1       \* rows of one add_embeddings call
MaxCandidates == 3  \* dicts handed to one rerank call
MaxK == 3           \* largest k asked of a search
MaxDocs == 2        \* documents handed to one chunk_documents call
MaxTokens == 4      \* tokens of one document
MaxChunkSize == 3   \* largest chunk_size (and overlap) asked for
MaxCalls == 7       \* calls on the MultilingualEmbedder class

\* ------------------------------------------------------ program constants
CandidateFloor == 10    \* rag_pipeline.py 107: candidates asked for at least
COOLDOWN == 5       \* _PDFWatchHandler._COOLDOWN
Dim      == 4       \* get_sentence_embedding_dimension() of the one model

\* The PDF names the source directory may hold, and what the loader gets
\* out of each: pages with text, or nothing (no extractable text, or a file
\* pypdf cannot open, which is logged and skipped).
Files == {"a.pdf", "b.pdf", "scan.pdf"}

\* the files that are created, modified and deleted while the server runs
EventFiles == {"a.pdf", "b.pdf"}

FileKind(f) == IF f = "scan.pdf" THEN "notext" ELSE "text"

\* chunks produced from one file (a.pdf is short, b.pdf spans two windows)
ChunksOf(f) == IF f = "b.pdf" THEN 2 ELSE 1

RECURSIVE NumChunks(_)
NumChunks(docs) ==
  IF docs = {} THEN 0
  ELSE LET f == CHOOSE x \in docs : TRUE
       IN  ChunksOf(f) + NumChunks(docs \ {f})

Contents == (SUBSET {f \in Files : FileKind(f) = "text"}) \ {{}}

\* ------------------------------------------------------------- artifacts
\* One file at the output path: absent, completely written from the chunks
\* of `docs`, or left truncated by a write that raised.
Absent      == [st |-> "absent",  docs |-> {}]
Partial     == [st |-> "partial", docs |-> {}]
Written(d)  == [st |-> "ok",      docs |-> d]

\* rag_pipeline: None, or a RAGPipeline whose store holds the rows read
\* from the payload and the metadata read from the sidecar.
NoPipeline     == [exists |-> FALSE, index |-> {}, metadata |-> {}]
Pipeline(i, m) == [exists |-> TRUE,  index |-> i,  metadata |-> m]

VARIABLES
  phase,          \* lifespan: "init" | "running" | "stopped" | "failed"
  clock,          \* time.monotonic()
  pdfDirExists,   \* settings.documind_pdf_dir is a directory
  pdfFiles,       \* the *.pdf files in it
  outDirExists,   \* index_path.parent exists
  diskIndex,      \* <path>.index
  diskMeta,       \* <path>.meta.json
  diskBuild,      \* <path>.build.json
  rag_pipeline,   \* main.rag_pipeline
  index_state,    \* main._index_state
  lock,           \* main._pipeline_lock.locked()
  reqs,           \* the _rebuild_and_swap coroutines, by order of scheduling
  bpc,            \* position of the build_index call
  bdocs,          \* build_index: filenames of the loaded documents
  berr,           \* build_index: the exception raised
  last_triggered, \* _PDFWatchHandler._last_triggered
  queries,        \* the open query requests
  unindexed,      \* history: a matching change came after the last time a
                  \*   build read the source directory
  missedInFlight, \* history: ... and it came while a rebuild was executing
  skipped,        \* history: a request was skipped since the last rebuild start
  evLog,          \* history (watcher alone): the matching events, in order
  diskBefore,     \* history (build alone): the output path before the build
  store,          \* a FaissVectorStore
  storage,        \* the files a store is saved to and loaded from
  ret,            \* the last call on the store or the retrieval pipeline
  chunking,       \* a call of chunk_documents: its arguments and locals
  singleton       \* MultilingualEmbedder._instance and ._model

vars == <<phase, clock, pdfDirExists, pdfFiles, outDirExists, diskIndex,
          diskMeta, diskBuild, rag_pipeline, index_state, lock, reqs, bpc,
          bdocs, berr, last_triggered, queries, unindexed, missedInFlight,
          skipped, evLog, diskBefore, store, storage, ret, chunking,
          singleton>>

diskVars  == <<outDirExists, diskIndex, diskMeta, diskBuild>>
buildVars == <<bpc, bdocs, berr>>
srcVars   == <<pdfDirExists, pdfFiles>>
histVars  == <<unindexed, missedInFlight, skipped, evLog, diskBefore>>
storeVars == <<store, storage, ret>>
libVars   == <<chunking, singleton>>

\* ------------------------------------------------------------ _IndexState
InitialIndexState ==
  [status |-> "initializing", doc_count |-> 0, chunk_count |-> 0,
   embedding_dim |-> 0, last_indexed |-> -1, last_error |-> ""]

IdleQuery == [pc |-> "idle", ref |-> NoPipeline, used |-> NoPipeline,
              outcome |-> "none", locked |-> FALSE, question |-> <<>>,
              arg |-> <<>>, detail |-> ""]

Requests == 1..MaxPending

\* ---------------------------------------------------------- pure helpers
\* load_pdfs_from_directory: [] for a missing directory, otherwise the text
\* pages of every readable PDF (files without text contribute nothing).
load_pdfs_from_directory(exists, files) ==
  IF ~exists THEN {}
  ELSE {f \in files : FileKind(f) = "text"}

\* FaissVectorStore.load as called by RAGPipeline.__init__: the error it
\* raises, or "ok".
LoadError(index, meta) ==
  IF index.st = "absent" THEN "FileNotFoundError"
  ELSE IF meta.st = "absent" THEN "FileNotFoundError"
  ELSE IF index.st = "partial" THEN "ReadError"
  ELSE IF meta.st = "partial" THEN "JSONDecodeError"
  ELSE IF NumChunks(meta.docs) # NumChunks(index.docs) THEN "MetadataCountMismatch"
  ELSE "ok"

\* -------------------------------------------------------- FaissVectorStore
\* Embedding dimensions a store or a batch may have: the model's, and one
\* that disagrees with it.
Dims == {Dim - 1, Dim}

\* the vector of dimension d with a at coordinate i
Axis(d, i, a) == [j \in 1..d |-> IF j = i THEN a ELSE 0]

\* Vectors as callers pass them, not normalized; their norms are whole
\* numbers so that the arithmetic stays in the integers.
Vectors(d) == {Axis(d, 1, 2), Axis(d, 2, 1), Axis(d, 1, -1)}

RECURSIVE SumSq(_)
SumSq(v) == IF v = <<>> THEN 0 ELSE Head(v) * Head(v) + SumSq(Tail(v))

\* np.linalg.norm of a row
Norm(v) == CHOOSE n \in 0..SumSq(v) : n * n = SumSq(v)

\* _normalize_vectors (faiss_store.py 19-24): a zero norm counts as 1
normalize_vectors(v) ==
  LET norms == IF Norm(v) = 0 THEN 1 ELSE Norm(v)
  IN  [i \in 1..Len(v) |-> v[i] \div norms]

RECURSIVE Dot(_, _)
Dot(u, v) ==
  IF u = <<>> \/ v = <<>> THEN 0
  ELSE Head(u) * Head(v) + Dot(Tail(u), Tail(v))

\* Metadata of a chunk as build_index stores it (indexer.py 81): Python
\* values of a dict, each with its type.
PyStr(x) == <<"str", x>>
PyInt(x) == <<"int", x>>

Metadata ==
  {[filename |-> PyStr("a.pdf"), page_number |-> PyInt(1), text |-> PyStr("alpha")],
   [filename |-> PyStr("b.pdf"), page_number |-> PyInt(2), text |-> PyStr("beta")]}

\* faiss.IndexFlatIP: its dimension d and its rows; `exists` is FALSE for
\* None.
NoFaissIndex == [exists |-> FALSE, d |-> 0, rows |-> <<>>]
IndexFlatIP(d) == [exists |-> TRUE, d |-> d, rows |-> <<>>]

\* FaissVectorStore.__init__ (faiss_store.py 42-53)
FaissVectorStore(embedding_dim) ==
  [embedding_dim |-> embedding_dim, index |-> NoFaissIndex,
   metadata |-> <<>>, built |-> FALSE]

\* A path is a stem and a suffix; Path.with_suffix replaces the suffix.
Paths == {[stem |-> "doc_index", suffix |-> x] : x \in {"", ".faiss", ".index"}}

with_suffix(path, suffix) == [stem |-> path.stem, suffix |-> suffix]

FileNames ==
  {[stem |-> "doc_index", suffix |-> x] :
     x \in {"", ".faiss", ".index", ".meta.json"}}

\* faiss_store.py 133, 150
IndexPath(path) ==
  IF path.suffix = ".index" THEN path ELSE with_suffix(path, ".index")

\* faiss_store.py 134, 151
MetaPath(path) == with_suffix(IndexPath(path), ".meta.json")

NoFile == [st |-> "absent"]

\* no call made yet
NoPath == [stem |-> "", suffix |-> ""]

NoReturn == [op |-> "none", error |-> "", k |-> 0, input |-> <<>>,
             results |-> <<>>, path |-> NoPath]

\* chunk_documents has not been called
NotChunking ==
  [pc |-> "idle", documents |-> <<>>, chunk_size |-> 0, overlap |-> 0,
   doc |-> 0, start |-> 0, chunk_index |-> 0, chunks |-> <<>>]

\* MultilingualEmbedder as the class statement leaves it (embedder.py
\* 14-15): no instance, no model.  Objects are numbered as they are made;
\* 0 is None.
NoEmbedder ==
  [instance |-> 0, model |-> 0, instances |-> 0, models |-> 0,
   op |-> "none", result |-> 0, calls |-> 0, returned |-> 0]

\* the chunker and the embedder class are not under test
LibIdle ==
  /\ chunking = NotChunking
  /\ singleton = NoEmbedder

\* the store is not under test
StoreIdle ==
  /\ store = FaissVectorStore(Dim)
  /\ storage = [f \in FileNames |-> NoFile]
  /\ ret = NoReturn
  /\ LibIdle

\* ------------------------------------------------------------------ Init
\* Before lifespan runs.  The output path holds nothing, a complete index
\* of an earlier build, or a payload whose sidecar was removed.
Init ==
  /\ phase = "init"
  /\ clock = COOLDOWN
  /\ pdfDirExists \in BOOLEAN
  /\ pdfFiles \in SUBSET EventFiles
  /\ (~pdfDirExists => pdfFiles = {})
  /\ \/ /\ outDirExists \in BOOLEAN
        /\ diskIndex = Absent /\ diskMeta = Absent /\ diskBuild = Absent
     \/ /\ outDirExists = TRUE
        /\ \E d \in Contents :
             /\ diskIndex = Written(d)
             /\ diskMeta \in {Written(d), Absent}
             /\ diskBuild = Written({})
  /\ rag_pipeline = NoPipeline
  /\ index_state = InitialIndexState
  /\ lock = FALSE
  /\ reqs = [i \in Requests |-> "none"]
  /\ bpc = "idle" /\ bdocs = {} /\ berr = ""
  /\ last_triggered = 0
  /\ queries = [q \in 1..MaxQueries |-> IdleQuery]
  /\ unindexed = FALSE /\ missedInFlight = FALSE /\ skipped = FALSE
  /\ evLog = <<>>
  /\ diskBefore = <<>>
  /\ StoreIdle

\* ------------------------------------------------------- build_index steps
\* build_index runs in a worker thread; each step below is one stage of it.
\* berr names the failure by its kind: "NoDocumentsFound" is the ValueError
\* "No PDFs found in ..." (indexer.py 56), "NoFragmentsProduced" the
\* ValueError "No chunks produced" (indexer.py 60), "EmbeddingCountMismatch"
\* the RuntimeError of indexer.py 74-77, "DimensionMismatch" the ValueError
\* of add_embeddings (faiss_store.py 75-78).
BuildRaise(e) ==
  /\ bpc' = "failed"
  /\ berr' = e

\* faulty variant: the output directory is created before the documents are loaded
BuildLoad_MkdirFirst ==
  /\ bpc = "load"
  /\ outDirExists' = TRUE
  /\ LET documents == load_pdfs_from_directory(pdfDirExists, pdfFiles)
     IN  IF documents = {}
         THEN BuildRaise("NoDocumentsFound") /\ bdocs' = {}
         ELSE bpc' = "chunk" /\ bdocs' = documents /\ berr' = ""
  /\ unindexed' = FALSE /\ missedInFlight' = FALSE
  /\ UNCHANGED <<phase, clock, srcVars, diskIndex, diskMeta, diskBuild,
                 rag_pipeline, index_state, lock, reqs, last_triggered,
                 queries, skipped, evLog, diskBefore, storeVars, libVars>>

\* 1. Load (indexer.py 54-56).
BuildLoad ==
  /\ bpc = "load"
  /\ LET documents == load_pdfs_from_directory(pdfDirExists, pdfFiles)
     IN  IF documents = {}
         THEN BuildRaise("NoDocumentsFound") /\ bdocs' = {}
         ELSE bpc' = "chunk" /\ bdocs' = documents /\ berr' = ""
  /\ unindexed' = FALSE /\ missedInFlight' = FALSE
  /\ UNCHANGED <<phase, clock, srcVars, diskVars, rag_pipeline, index_state,
                 lock, reqs, last_triggered, queries, skipped, evLog,
                 diskBefore, storeVars, libVars>>

\* 2. Chunk (indexer.py 59-61).  chunk_documents raises when the tokenizer
\* cannot be obtained; documents that reach it have text, so chunks exist.
BuildChunk(out) ==
  /\ bpc = "chunk"
  /\ out \in {"ok", "raise"}
  /\ IF out = "raise" THEN BuildRaise("ImportError")
     ELSE IF NumChunks(bdocs) = 0 THEN BuildRaise("NoFragmentsProduced")
     ELSE bpc' = "embed" /\ berr' = ""
  /\ UNCHANGED <<phase, clock, srcVars, diskVars, rag_pipeline, index_state,
                 lock, reqs, bdocs, last_triggered, queries, histVars, storeVars, libVars>>

\* 3-4. Embed and populate a fresh store (indexer.py 64-82).  The embedding
\* service is opaque: it raises, or returns a matrix whose row count or
\* width may disagree with what was asked.
BuildEmbed(out) ==
  /\ bpc = "embed"
  /\ out \in {"ok", "raise", "rows", "dim"}
  /\ CASE out = "raise" -> BuildRaise("EmbeddingServiceError")
       [] out = "rows"  -> BuildRaise("EmbeddingCountMismatch")
       [] out = "dim"   -> BuildRaise("DimensionMismatch")
       [] OTHER         -> bpc' = "mkdir" /\ berr' = ""
  /\ UNCHANGED <<phase, clock, srcVars, diskVars, rag_pipeline, index_state,
                 lock, reqs, bdocs, last_triggered, queries, histVars, storeVars, libVars>>

\* 5a. output_path.parent.mkdir (indexer.py 85, faiss_store.py 131).
BuildMkdir(out) ==
  /\ bpc = "mkdir"
  /\ out \in {"ok", "raise"}
  /\ IF out = "ok"
     THEN /\ outDirExists' = TRUE
          /\ bpc' = "write_index" /\ berr' = ""
     ELSE /\ ~outDirExists
          /\ BuildRaise("OSError")
          /\ UNCHANGED outDirExists
  /\ UNCHANGED <<phase, clock, srcVars, diskIndex, diskMeta, diskBuild,
                 rag_pipeline, index_state, lock, reqs, bdocs, last_triggered,
                 queries, histVars, storeVars, libVars>>

\* What a write leaves behind: the new file, or, when it raises, the old
\* file (the open failed) or a truncated one.
AfterWrite(old, new, out) ==
  CASE out = "ok"        -> new
    [] out = "kept"      -> old
    [] out = "truncated" -> Partial

\* the step after a write: the next stage, or the OSError it raised
WriteThen(out, next) ==
  IF out = "ok" THEN bpc' = next /\ berr' = "" ELSE BuildRaise("OSError")

\* 5b. faiss.write_index (faiss_store.py 136).
BuildWriteIndex(out) ==
  /\ bpc = "write_index"
  /\ out \in {"ok", "kept", "truncated"}
  /\ diskIndex' = AfterWrite(diskIndex, Written(bdocs), out)
  /\ WriteThen(out, "write_meta")
  /\ UNCHANGED <<phase, clock, srcVars, outDirExists, diskMeta, diskBuild,
                 rag_pipeline, index_state, lock, reqs, bdocs, last_triggered,
                 queries, histVars, storeVars, libVars>>

\* 5c. the metadata sidecar (faiss_store.py 137-138).
BuildWriteMeta(out) ==
  /\ bpc = "write_meta"
  /\ out \in {"ok", "kept", "truncated"}
  /\ diskMeta' = AfterWrite(diskMeta, Written(bdocs), out)
  /\ WriteThen(out, "write_build")
  /\ UNCHANGED <<phase, clock, srcVars, outDirExists, diskIndex, diskBuild,
                 rag_pipeline, index_state, lock, reqs, bdocs, last_triggered,
                 queries, histVars, storeVars, libVars>>

\* 5d. the build-config sidecar, then return IndexStats (indexer.py 89-109).
BuildWriteInfo(out) ==
  /\ bpc = "write_build"
  /\ out \in {"ok", "kept", "truncated"}
  /\ diskBuild' = AfterWrite(diskBuild, Written({}), out)
  /\ WriteThen(out, "done")
  /\ UNCHANGED <<phase, clock, srcVars, outDirExists, diskIndex, diskMeta,
                 rag_pipeline, index_state, lock, reqs, bdocs, last_triggered,
                 queries, histVars, storeVars, libVars>>

\* What the collaborators of a build may do: succeed, raise, return the
\* wrong number of rows or the wrong width, fail a write before or after
\* the file was opened.
Outcomes == {"ok", "raise", "rows", "dim", "kept", "truncated"}

\* One stage of build_index, the collaborators answering within `outs`.
BuildStep(outs) ==
  \/ BuildLoad
  \/ \E out \in outs : BuildChunk(out)
  \/ \E out \in outs : BuildEmbed(out)
  \/ \E out \in outs : BuildMkdir(out)
  \/ \E out \in outs : BuildWriteIndex(out)
  \/ \E out \in outs : BuildWriteMeta(out)
  \/ \E out \in outs : BuildWriteInfo(out)

\* --------------------------------------------------- RAGPipeline.__init__
\* Constructing a pipeline loads the store from disk (rag_pipeline.py 78-80)
\* and creates the reranker and the generator (pipeline.py 69-82), which may
\* raise on their own.
ConstructErrors ==
  IF LoadError(diskIndex, diskMeta) = "ok"
  THEN {"ok", "GeneratorUnavailableError"}
  ELSE {LoadError(diskIndex, diskMeta)}

Constructed == Pipeline(diskIndex.docs, diskMeta.docs)

\* ---------------------------------------------------------------- lifespan
\* Startup (main.py 155-200): no index file, or a pipeline loaded from it.
StartupNoIndex ==
  /\ phase = "init"
  /\ diskIndex.st = "absent"
  /\ index_state' = [index_state EXCEPT !.status = "no_index"]
  /\ rag_pipeline' = NoPipeline
  /\ pdfDirExists' = TRUE
  /\ phase' = "running"
  /\ UNCHANGED <<clock, pdfFiles, diskVars, lock, reqs, buildVars,
                 last_triggered, queries, histVars, storeVars, libVars>>

StartupLoad ==
  /\ phase = "init"
  /\ diskIndex.st # "absent"
  /\ \E e \in ConstructErrors :
       IF e = "ok"
       THEN /\ rag_pipeline' = Constructed
            /\ index_state' =
                 [index_state EXCEPT
                    !.doc_count = Cardinality(diskMeta.docs),
                    !.chunk_count = NumChunks(diskMeta.docs),
                    !.status = "ready",
                    !.last_indexed = 0]
            /\ pdfDirExists' = TRUE
            /\ phase' = "running"
       ELSE /\ phase' = "failed"
            /\ UNCHANGED <<rag_pipeline, index_state, pdfDirExists>>
  /\ UNCHANGED <<clock, pdfFiles, diskVars, lock, reqs, buildVars,
                 last_triggered, queries, histVars, storeVars, libVars>>

\* Shutdown (main.py 205-209): the observer is stopped, the pipeline dropped.
Shutdown ==
  /\ phase = "running"
  /\ phase' = "stopped"
  /\ rag_pipeline' = NoPipeline
  /\ UNCHANGED <<clock, srcVars, diskVars, index_state, lock, reqs, buildVars,
                 last_triggered, queries, histVars, storeVars, libVars>>

\* ------------------------------------------------------- _PDFWatchHandler
\* Time passes: the next reading of time.monotonic() is d seconds later.
Tick(d) ==
  /\ clock + d <= MaxClock
  /\ clock' = clock + d
  /\ UNCHANGED <<phase, srcVars, diskVars, rag_pipeline, index_state, lock,
                 reqs, buildVars, last_triggered, queries, histVars, storeVars, libVars>>

\* faulty variant: an event exactly one cooldown after the last trigger is dropped too
Debounced_Inclusive(now) == now - last_triggered <= COOLDOWN

\* main.py 124: the event is dropped
Debounced(now) == now - last_triggered < COOLDOWN

NextRequest ==
  CHOOSE i \in Requests : reqs[i] = "none" /\ \A j \in 1..(i-1) : reqs[j] # "none"

\* faulty variant: a dropped event moves _last_triggered as well
Schedule_ResetOnDrop(now) ==
  IF Debounced(now)
  THEN /\ last_triggered' = now
       /\ UNCHANGED reqs
  ELSE /\ last_triggered' = now
       /\ reqs' = [reqs EXCEPT ![NextRequest] = "scheduled"]

\* _schedule (main.py 121-129): debounce, else run_coroutine_threadsafe.
Schedule(now) ==
  IF Debounced(now)
  THEN UNCHANGED <<last_triggered, reqs>>
  ELSE /\ last_triggered' = now
       /\ reqs' = [reqs EXCEPT ![NextRequest] = "scheduled"]

\* on_created / on_modified / on_deleted (main.py 134-144) for a PDF of the
\* watched directory, together with the change that caused the event.
Watch(f, kind) ==
  /\ phase = "running"
  /\ \E i \in Requests : reqs[i] = "none"
  /\ CASE kind = "created"  -> f \notin pdfFiles /\ pdfFiles' = pdfFiles \cup {f}
       [] kind = "deleted"  -> f \in pdfFiles /\ pdfFiles' = pdfFiles \ {f}
       [] kind = "modified" -> f \in pdfFiles /\ pdfFiles' = pdfFiles
  /\ Schedule(clock)
  /\ UNCHANGED <<phase, clock, pdfDirExists, diskVars, rag_pipeline,
                 index_state, lock, buildVars, queries, diskBefore, storeVars, libVars>>

FsEvent(f, kind) ==
  /\ f \in EventFiles
  /\ Watch(f, kind)
  /\ unindexed' = TRUE
  /\ missedInFlight' = (missedInFlight \/ lock)
  /\ UNCHANGED <<skipped, evLog>>

\* coroutines handed to the event loop and not yet started
Scheduled(r) == {i \in Requests : r[i] = "scheduled"}

\* The same event with the watcher's decision recorded: when it came, what
\* _last_triggered was before and after, and how many requests were emitted.
FsEventLogged(f, kind) ==
  /\ Len(evLog) < MaxEvents
  /\ Watch(f, kind)
  /\ evLog' = Append(evLog,
                [t |-> clock, last |-> last_triggered,
                 after |-> last_triggered',
                 emitted |-> Cardinality(Scheduled(reqs'))
                               - Cardinality(Scheduled(reqs))])
  /\ unindexed' = TRUE
  /\ missedInFlight' = (missedInFlight \/ lock)
  /\ UNCHANGED skipped

\* ------------------------------------------------------ _rebuild_and_swap
\* A scheduled coroutine the event loop may start.  All of them run the
\* same code, so which one starts first makes no difference.
IsNextToRun(i) ==
  /\ reqs[i] = "scheduled"
  /\ \A j \in 1..(i-1) : reqs[j] # "scheduled"

\* faulty variant: the in-progress check is missing
Locked_Unchecked == FALSE

\* main.py 73: _pipeline_lock.locked()
Locked == lock

\* faulty variant: the later request cancels the rebuild it meets, which
\* never reaches its swap or its except branch
RebuildSkip_Cancel(i) ==
  /\ phase = "running"
  /\ IsNextToRun(i)
  /\ Locked
  /\ reqs' = [j \in Requests |->
               IF j = i \/ reqs[j] \in {"build", "construct"}
               THEN "none" ELSE reqs[j]]
  /\ bpc' = "idle" /\ bdocs' = {} /\ berr' = ""
  /\ skipped' = TRUE
  /\ UNCHANGED <<phase, clock, srcVars, diskVars, rag_pipeline, index_state,
                 lock, last_triggered, queries, unindexed, missedInFlight,
                 evLog, diskBefore, storeVars, libVars>>

\* main.py 72-75: a rebuild is in progress, return.
RebuildSkip(i) ==
  /\ phase = "running"
  /\ IsNextToRun(i)
  /\ Locked
  /\ reqs' = [reqs EXCEPT ![i] = "none"]
  /\ skipped' = TRUE
  /\ UNCHANGED <<phase, clock, srcVars, diskVars, rag_pipeline, index_state,
                 lock, buildVars, last_triggered, queries, unindexed,
                 missedInFlight, evLog, diskBefore, storeVars, libVars>>

\* faulty variant: the lock is not held while the rebuild runs
Acquired_Dropped == FALSE

\* main.py 81: `async with _pipeline_lock` holds the lock for the whole block
Acquired == TRUE

\* main.py 77-90: take the lock, status = indexing, hand build_index to a
\* worker thread.
RebuildEnter(i) ==
  /\ phase = "running"
  /\ IsNextToRun(i)
  /\ ~Locked
  /\ lock' = Acquired
  /\ index_state' = [index_state EXCEPT !.status = "indexing"]
  /\ reqs' = [reqs EXCEPT ![i] = "build"]
  /\ bpc' = "load" /\ bdocs' = {} /\ berr' = ""
  /\ skipped' = FALSE
  /\ UNCHANGED <<phase, clock, srcVars, diskVars, rag_pipeline,
                 last_triggered, queries, unindexed, missedInFlight, evLog,
                 diskBefore, storeVars, libVars>>

\* main.py 91: build_index returned its stats; RAGPipeline(index_path) goes
\* to a worker thread.
RebuildBuilt(i) ==
  /\ phase = "running"
  /\ reqs[i] = "build"
  /\ bpc = "done"
  /\ reqs' = [reqs EXCEPT ![i] = "construct"]
  /\ UNCHANGED <<phase, clock, srcVars, diskVars, rag_pipeline, index_state,
                 lock, buildVars, last_triggered, queries, histVars, storeVars, libVars>>

\* main.py 92-99, then the lock is released.
RebuildPublish(i) ==
  /\ phase = "running"
  /\ reqs[i] = "construct"
  /\ LoadError(diskIndex, diskMeta) = "ok"
  /\ rag_pipeline' = Constructed
  /\ index_state' =
       [status |-> "ready",
        doc_count |-> Cardinality(bdocs),
        chunk_count |-> NumChunks(bdocs),
        embedding_dim |-> Dim,
        last_indexed |-> clock,
        last_error |-> ""]
  /\ reqs' = [reqs EXCEPT ![i] = "none"]
  /\ lock' = FALSE
  /\ bpc' = "idle" /\ bdocs' = {} /\ berr' = ""
  /\ UNCHANGED <<phase, clock, srcVars, diskVars, last_triggered, queries,
                 histVars, storeVars, libVars>>

\* faulty variant: a failed rebuild also drops the published pipeline and its counts
RebuildError_Unpublish(i, e) ==
  /\ index_state' = [index_state EXCEPT !.status = "error", !.last_error = e,
                                         !.doc_count = 0, !.chunk_count = 0]
  /\ rag_pipeline' = NoPipeline
  /\ reqs' = [reqs EXCEPT ![i] = "none"]
  /\ lock' = FALSE
  /\ bpc' = "idle" /\ bdocs' = {} /\ berr' = ""
  /\ UNCHANGED <<phase, clock, srcVars, diskVars, last_triggered, queries,
                 histVars, storeVars, libVars>>

\* faulty variant: a failed first build falls back to no_index instead of error
RebuildError_NoIndex(i, e) ==
  /\ index_state' = [index_state EXCEPT
                       !.status = IF rag_pipeline.exists THEN "error" ELSE "no_index",
                       !.last_error = e]
  /\ reqs' = [reqs EXCEPT ![i] = "none"]
  /\ lock' = FALSE
  /\ bpc' = "idle" /\ bdocs' = {} /\ berr' = ""
  /\ UNCHANGED <<phase, clock, srcVars, diskVars, rag_pipeline,
                 last_triggered, queries, histVars, storeVars, libVars>>

\* faulty variant: the handler records the error and leaves the status
RebuildError_StatusKept(i, e) ==
  /\ index_state' = [index_state EXCEPT !.last_error = e]
  /\ reqs' = [reqs EXCEPT ![i] = "none"]
  /\ lock' = FALSE
  /\ bpc' = "idle" /\ bdocs' = {} /\ berr' = ""
  /\ UNCHANGED <<phase, clock, srcVars, diskVars, rag_pipeline,
                 last_triggered, queries, histVars, storeVars, libVars>>

\* main.py 103-106: build_index or the constructor raised.
RebuildError(i, e) ==
  /\ index_state' = [index_state EXCEPT !.status = "error", !.last_error = e]
  /\ reqs' = [reqs EXCEPT ![i] = "none"]
  /\ lock' = FALSE
  /\ bpc' = "idle" /\ bdocs' = {} /\ berr' = ""
  /\ UNCHANGED <<phase, clock, srcVars, diskVars, rag_pipeline,
                 last_triggered, queries, histVars, storeVars, libVars>>

RebuildBuildFailed(i) ==
  /\ phase = "running"
  /\ reqs[i] = "build"
  /\ bpc = "failed"
  /\ RebuildError(i, berr)

RebuildConstructFailed(i) ==
  /\ phase = "running"
  /\ reqs[i] = "construct"
  /\ \E e \in ConstructErrors \ {"ok"} : RebuildError(i, e)

\* ------------------------------------------------------------ query / ask
\* A question is the text of the request body, here over a blank and a
\* letter.  QueryInput (main.py 214-216) admits 1 to 65536 characters, so
\* the handler never sees the empty text.
Chars == {" ", "x"}

Questions == UNION {[1..n -> Chars] : n \in 1..MaxQuestion}

RECURSIVE lstrip(_)
lstrip(s) == IF s # <<>> /\ Head(s) = " " THEN lstrip(Tail(s)) ELSE s

RECURSIVE rstrip(_)
rstrip(s) ==
  IF s # <<>> /\ s[Len(s)] = " " THEN rstrip(SubSeq(s, 1, Len(s) - 1)) ELSE s

\* str.strip()
strip(s) == rstrip(lstrip(s))

\* main.py 43
SERVICE_UNAVAILABLE_MESSAGE ==
  "Service temporarily unavailable. Please try again later."

\* faulty variant: the question is checked as sent, without stripping it
validate_question_Unstripped(question) ==
  IF question = <<>>
  THEN [q |-> <<>>, error |-> "question must be non-empty"]
  ELSE IF Len(question) > documind_max_question_length
  THEN [q |-> <<>>, error |-> "question must be at most max_len characters"]
  ELSE [q |-> question, error |-> ""]

\* _validate_question (main.py 374-381): the stripped question, or the
\* message of the ValidationError it raises.
validate_question(question) ==
  LET q == strip(question)
  IN  IF q = <<>>
      THEN [q |-> <<>>, error |-> "question must be non-empty"]
      ELSE IF Len(q) > documind_max_question_length
      THEN [q |-> <<>>, error |-> "question must be at most max_len characters"]
      ELSE [q |-> q, error |-> ""]

\* faulty variant: the handler does not test for a missing pipeline
Unavailable_Unchecked == FALSE

\* main.py 395: rag_pipeline is None
Unavailable == ~rag_pipeline.exists

\* an HTTP error response: the handler is finished
Rejected(question, code, detail) ==
  [pc |-> "done", ref |-> NoPipeline, used |-> NoPipeline, outcome |-> code,
   locked |-> lock, question |-> question, arg |-> <<>>, detail |-> detail]

\* main.py 395-404: no pipeline -> 503, invalid question -> 400 with the
\* message of the ValidationError, otherwise the ask call of the current
\* pipeline is handed to a worker thread with the stripped question.
QueryResponse(question) ==
  IF Unavailable
  THEN Rejected(question, "503", SERVICE_UNAVAILABLE_MESSAGE)
  ELSE IF validate_question(question).error # ""
  THEN Rejected(question, "400", validate_question(question).error)
  ELSE [pc |-> "asking", ref |-> rag_pipeline, used |-> NoPipeline,
        outcome |-> "none", locked |-> lock, question |-> question,
        arg |-> validate_question(question).q, detail |-> ""]

\* faulty variant: the worker thread looks the global up when it runs
QueryTarget_Current(q) == rag_pipeline

\* main.py 404: the bound method rag_pipeline.ask is evaluated in the
\* coroutine, before the worker thread runs it.
QueryTarget(q) == queries[q].ref

\* faulty variant: the handler takes the rebuild lock before it answers
QueryCall_Locking(q, question) ==
  /\ phase = "running"
  /\ ~lock
  /\ queries[q].pc \in {"idle", "done"}
  /\ queries' = [queries EXCEPT ![q] = QueryResponse(question)]
  /\ UNCHANGED <<phase, clock, srcVars, diskVars, rag_pipeline, index_state,
                 lock, reqs, buildVars, last_triggered, histVars, storeVars, libVars>>

\* query and ask up to the await (main.py 393-404, 425-436).
QueryCall(q, question) ==
  /\ phase = "running"
  /\ queries[q].pc \in {"idle", "done"}
  /\ queries' = [queries EXCEPT ![q] = QueryResponse(question)]
  /\ UNCHANGED <<phase, clock, srcVars, diskVars, rag_pipeline, index_state,
                 lock, reqs, buildVars, last_triggered, histVars, storeVars, libVars>>

\* RAGPipeline.ask in the worker thread (pipeline.py 95-105): retrieval over
\* the store of the pipeline the call was bound to, then generation, which
\* may fail; main.py 405-413 maps the result: the answer, or 503 with the
\* generic message for any exception.
QueryAsk(q) ==
  /\ queries[q].pc = "asking"
  /\ \E out \in {"200", "503"} :
       queries' = [queries EXCEPT ![q] =
                     [@ EXCEPT !.pc = "done",
                               !.used = QueryTarget(q),
                               !.outcome = out,
                               !.detail = IF out = "200" THEN ""
                                          ELSE SERVICE_UNAVAILABLE_MESSAGE]]
  /\ UNCHANGED <<phase, clock, srcVars, diskVars, rag_pipeline, index_state,
                 lock, reqs, buildVars, last_triggered, histVars, storeVars, libVars>>

\* ------------------------------------------------ FaissVectorStore calls
\* Errors are named by kind: "DimensionMismatch" is the ValueError
\* "Embedding dim ... != store dim ..." (faiss_store.py 75-78) or, in load,
\* "Loaded index dim ..." (161-164); "MetadataCountMismatch" the ValueError
\* "metadata length ..." (79-82) or, in load, "Metadata count ..." (165-168);
\* "QueryDimensionMismatch" the ValueError of search (105-108).
Returned(op, error, k, input, results) ==
  [op |-> op, error |-> error, k |-> k, input |-> input, results |-> results,
   path |-> NoPath]

\* A batch for add_embeddings: an (N, d) array given by its rows, and a
\* list of metadata dicts.
Batches ==
  UNION {[1..n -> Vectors(d)] : n \in 1..MaxBatch, d \in Dims}

\* lists shorter than a batch, as long, and longer
MetadataLists == UNION {[1..n -> Metadata] : n \in 0..(MaxBatch + 1)}

\* build_index (faiss_store.py 55-60)
build_index(s) ==
  [s EXCEPT !.index = IndexFlatIP(s.embedding_dim), !.metadata = <<>>,
            !.built = TRUE]

\* faulty variant: the rows are added before the metadata is counted
add_embeddings_RowsFirst(s, embeddings, metadata) ==
  LET s1  == IF s.index.exists THEN s ELSE build_index(s)
      d   == Len(embeddings[1])
      s2  == [s1 EXCEPT !.index.rows =
                @ \o [i \in 1..Len(embeddings) |-> normalize_vectors(embeddings[i])]]
  IN  IF d # s1.embedding_dim
      THEN [store |-> s1, error |-> "DimensionMismatch"]
      ELSE IF Len(metadata) # Len(embeddings)
      THEN [store |-> s2, error |-> "MetadataCountMismatch"]
      ELSE [store |-> [s2 EXCEPT !.metadata = @ \o metadata], error |-> ""]

\* add_embeddings (faiss_store.py 62-88): the store after the call and the
\* error raised, if any.
add_embeddings(s, embeddings, metadata) ==
  LET s1 == IF s.index.exists THEN s ELSE build_index(s)
      d  == Len(embeddings[1])
  IN  IF d # s1.embedding_dim
      THEN [store |-> s1, error |-> "DimensionMismatch"]
      ELSE IF Len(metadata) # Len(embeddings)
      THEN [store |-> s1, error |-> "MetadataCountMismatch"]
      ELSE [store |->
              [s1 EXCEPT
                 !.index.rows =
                   @ \o [i \in 1..Len(embeddings) |-> normalize_vectors(embeddings[i])],
                 !.metadata = @ \o metadata],
            error |-> ""]

\* the lifecycle variables, which calls on a store leave alone
serverVars ==
  <<phase, clock, pdfDirExists, pdfFiles, outDirExists, diskIndex, diskMeta,
    diskBuild, rag_pipeline, index_state, lock, reqs, bpc, bdocs, berr,
    last_triggered, queries, unindexed, missedInFlight, skipped, evLog,
    diskBefore>>

\* A call of add_embeddings; ret keeps the shape of the arguments: the
\* width and the number of rows of the array, the length of the list.
Add(embeddings, metadata) ==
  /\ Len(store.index.rows) + Len(embeddings) <= MaxRows
  /\ LET r == add_embeddings(store, embeddings, metadata)
     IN  /\ store' = r.store
         /\ ret' = Returned("add", r.error, 0,
                            <<Len(embeddings[1]), Len(embeddings), Len(metadata)>>,
                            <<>>)
  /\ UNCHANGED <<serverVars, libVars, storage>>

Min(a, b) == IF a <= b THEN a ELSE b
Max(a, b) == IF a >= b THEN a ELSE b

\* IndexFlatIP.search for one query: the k rows of largest inner product,
\* best first.  Which of several rows of equal score comes first, or is
\* left out, is up to the library: any choice is a possible answer.
FlatSearch(index, q, k) ==
  LET n == Len(index.rows)
      score == [i \in 1..n |-> Dot(q, index.rows[i])]
  IN  {ids \in [1..k -> 1..n] :
         /\ \A a, b \in 1..k : a < b => ids[a] # ids[b] /\ score[ids[a]] >= score[ids[b]]
         /\ \A i \in 1..n :
              (\A a \in 1..k : ids[a] # i) => \A a \in 1..k : score[ids[a]] >= score[i]}

\* faulty variant: the library is asked for k rows whatever the store holds,
\* and pads its answer with the last row
search_Unclamped(s, query_vector, k) ==
  IF ~s.index.exists \/ Len(s.index.rows) = 0
  THEN {[error |-> "", results |-> <<>>]}
  ELSE IF Len(query_vector) # s.embedding_dim
  THEN {[error |-> "QueryDimensionMismatch", results |-> <<>>]}
  ELSE LET q  == normalize_vectors(query_vector)
           n  == Len(s.index.rows)
       IN  {[error |-> "",
             results |-> [j \in 1..k |->
                            LET i == ids[Min(j, n)]
                            IN  <<Dot(q, s.index.rows[i]), s.metadata[i]>>]] :
              ids \in FlatSearch(s.index, q, Min(k, n))}

\* search (faiss_store.py 90-118): the answers the call may give.
search(s, query_vector, k) ==
  IF ~s.index.exists \/ Len(s.index.rows) = 0
  THEN {[error |-> "", results |-> <<>>]}
  ELSE IF Len(query_vector) # s.embedding_dim
  THEN {[error |-> "QueryDimensionMismatch", results |-> <<>>]}
  ELSE LET q  == normalize_vectors(query_vector)
           kk == Min(k, Len(s.index.rows))
       IN  {IF \E j \in 1..kk : ids[j] > Len(s.metadata)
            THEN [error |-> "IndexError", results |-> <<>>]
            ELSE [error |-> "",
                  results |-> [j \in 1..kk |->
                                 <<Dot(q, s.index.rows[ids[j]]),
                                   s.metadata[ids[j]]>>]] :
              ids \in FlatSearch(s.index, q, kk)}

Search(query_vector, k) ==
  /\ \E r \in search(store, query_vector, k) :
       ret' = Returned("search", r.error, k, query_vector, r.results)
  /\ UNCHANGED <<serverVars, libVars, store, storage>>

\* a fresh store replaces the one at hand
NewStore(embedding_dim) ==
  /\ store' = FaissVectorStore(embedding_dim)
  /\ ret' = Returned("new", "", 0, <<>>, <<>>)
  /\ UNCHANGED <<serverVars, libVars, storage>>

\* ------------------------------------------------------- save and load
\* json.dump and json.load of the metadata list (faiss_store.py 137, 159).
\* A str becomes a JSON string and an int a JSON number, and back; the keys
\* of the dicts are strs and stay as they are.
JsonOf(v) == IF v[1] = "str" THEN <<"string", v[2]>> ELSE <<"number", v[2]>>

\* faulty variant: every JSON value is read as a str
PyOf_AllStr(j) == PyStr(j[2])

PyOf(j) == IF j[1] = "string" THEN PyStr(j[2]) ELSE PyInt(j[2])

json_dump(metadata) ==
  [i \in 1..Len(metadata) |->
     [key \in DOMAIN metadata[i] |-> JsonOf(metadata[i][key])]]

json_load(text) ==
  [i \in 1..Len(text) |-> [key \in DOMAIN text[i] |-> PyOf(text[i][key])]]

\* the two kinds of file: what faiss.write_index writes, and a JSON text
IndexFile(index) == [st |-> "index", d |-> index.d, rows |-> index.rows]
JsonFile(text) == [st |-> "json", text |-> text]

\* save (faiss_store.py 120-139): the files after the call and the error.
\* The payload is written first and the sidecar second; `outcome` is "ok",
\* or "killed" for a process that ends between the two writes.
save(s, files, path, outcome) ==
  IF ~s.index.exists
  THEN [storage |-> files, error |-> "RuntimeError"]
  ELSE LET written == [files EXCEPT ![IndexPath(path)] = IndexFile(s.index)]
       IN  IF outcome = "killed"
           THEN [storage |-> written, error |-> "Killed"]
           ELSE [storage |->
                   [written EXCEPT ![MetaPath(path)] =
                                     JsonFile(json_dump(s.metadata))],
                 error |-> ""]

\* faulty variant: the sidecar is not counted against the payload
load_Uncounted(s, files, path) ==
  LET index_path == IndexPath(path)
      meta_path  == MetaPath(path)
  IN  IF files[index_path] = NoFile \/ files[meta_path] = NoFile
      THEN [store |-> s, error |-> "FileNotFoundError"]
      ELSE LET s1 == [s EXCEPT
                        !.index = [exists |-> TRUE,
                                   d |-> files[index_path].d,
                                   rows |-> files[index_path].rows],
                        !.metadata = json_load(files[meta_path].text)]
           IN  IF s1.index.d # s1.embedding_dim
               THEN [store |-> s1, error |-> "DimensionMismatch"]
               ELSE [store |-> [s1 EXCEPT !.built = TRUE], error |-> ""]

\* load (faiss_store.py 141-171): the store after the call and the error.
\* The index and the metadata are assigned (157-159) before the dimension
\* (161-164) and the count (165-168) are checked.
load(s, files, path) ==
  LET index_path == IndexPath(path)
      meta_path  == MetaPath(path)
  IN  IF files[index_path] = NoFile \/ files[meta_path] = NoFile
      THEN [store |-> s, error |-> "FileNotFoundError"]
      ELSE LET s1 == [s EXCEPT
                        !.index = [exists |-> TRUE,
                                   d |-> files[index_path].d,
                                   rows |-> files[index_path].rows],
                        !.metadata = json_load(files[meta_path].text)]
           IN  IF s1.index.d # s1.embedding_dim
               THEN [store |-> s1, error |-> "DimensionMismatch"]
               ELSE IF Len(s1.metadata) # Len(s1.index.rows)
               THEN [store |-> s1, error |-> "MetadataCountMismatch"]
               ELSE [store |-> [s1 EXCEPT !.built = TRUE], error |-> ""]

\* store.save(path)
Save(path, outcome) ==
  /\ LET r == save(store, storage, path, outcome)
     IN  /\ storage' = r.storage
         /\ ret' = [Returned("save", r.error, 0, <<>>, <<>>) EXCEPT !.path = path]
  /\ UNCHANGED <<serverVars, libVars, store>>

\* FaissVectorStore(embedding_dim=dim).load(path): a store is made and
\* loaded, as in RAGPipeline.__init__ (rag_pipeline.py 78-79), and is the
\* store at hand from then on; ret keeps the dimension asked for.
\* load called on the store in hand, whatever it holds
LoadInto(path) ==
  /\ LET r == load(store, storage, path)
     IN  /\ store' = r.store
         /\ ret' = [Returned("load", r.error, 0, <<store.embedding_dim>>, <<>>)
                      EXCEPT !.path = path]
  /\ UNCHANGED <<serverVars, libVars, storage>>

Load(embedding_dim, path) ==
  /\ LET r == load(FaissVectorStore(embedding_dim), storage, path)
     IN  /\ store' = r.store
         /\ ret' = [Returned("load", r.error, 0, <<embedding_dim>>, <<>>)
                      EXCEPT !.path = path]
  /\ UNCHANGED <<serverVars, libVars, storage>>

\* ---------------------------------------------------- retrieval pipeline
\* Retriever.retrieve (retriever.py 38-57): the answers of the search as
\* dicts; an error of the search is raised on.
retrieve(s, query_embedding, k) ==
  {[error |-> raw.error,
    results |-> [j \in 1..Len(raw.results) |->
                   [score |-> raw.results[j][1], metadata |-> raw.results[j][2]]]] :
     raw \in search(s, query_embedding, k)}

\* the scores CrossEncoder.predict may give (reranker.py 79)
RerankScores == {0, 1, 2}

\* faulty variant: list.sort without reverse
sort_reverse_Ascending(combined) ==
  LET n == Len(combined)
      pos(i) == 1 + Cardinality({j \in 1..n :
                                   \/ combined[j].score < combined[i].score
                                   \/ /\ combined[j].score = combined[i].score
                                      /\ j < i})
  IN  [p \in 1..n |-> combined[CHOOSE i \in 1..n : pos(i) = p]]

\* combined.sort(key=score, reverse=True) (reranker.py 91): descending, and
\* stable, so dicts of equal score keep their order.
sort_reverse(combined) ==
  LET n == Len(combined)
      pos(i) == 1 + Cardinality({j \in 1..n :
                                   \/ combined[j].score > combined[i].score
                                   \/ /\ combined[j].score = combined[i].score
                                      /\ j < i})
  IN  [p \in 1..n |-> combined[CHOOSE i \in 1..n : pos(i) = p]]

\* Reranker.rerank (reranker.py 55-92) for top_k >= 0; `scores` is what
\* predict returned, one score per pair.
rerank(results, scores, top_k) ==
  IF results = <<>>
  THEN <<>>
  ELSE LET combined == [i \in 1..Len(results) |->
                          [results[i] EXCEPT !.score = scores[i]]]
           sorted   == sort_reverse(combined)
       IN  SubSeq(sorted, 1, Min(top_k, Len(sorted)))

\* the candidate lists a reranker is handed: dicts of retrieve
Candidates ==
  UNION {[1..n -> {[score |-> 1, metadata |-> m] : m \in Metadata}] :
           n \in 0..MaxCandidates}

\* A call of rerank; ret keeps each candidate with the score predicted
\* for it.
Rerank(results, scores, top_k) ==
  /\ ret' = Returned("rerank", "", top_k,
                     [i \in 1..Len(results) |->
                        [candidate |-> results[i], predicted |-> scores[i]]],
                     rerank(results, scores, top_k))
  /\ UNCHANGED <<serverVars, libVars, store, storage>>

\* faulty variant: the ceiling is not applied
retrieve_k_Unbounded(rerank_top_k, k) == Max(k, CandidateFloor)

\* rag_pipeline.py 107
retrieve_k(rerank_top_k, k) == Min(rerank_top_k, Max(k, CandidateFloor))

\* the values of rerank_top_k: below the rows a store may hold, and the
\* default (rag_pipeline.py 46)
Ceilings == {1, 2, 20}

\* RAGPipeline.run (rag_pipeline.py 82-126) on a pipeline over store s:
\* the results it may give.  `scores` stands for the reranker's model: the
\* score it predicts for the candidate at each place.
run(s, reranker, rerank_top_k, query_embedding, k, scores) ==
  LET retrieved == IF reranker
                   THEN retrieve(s, query_embedding, retrieve_k(rerank_top_k, k))
                   ELSE retrieve(s, query_embedding, k)
  IN  {IF r.error # ""
       THEN [error |-> r.error, sources |-> <<>>, scores |-> <<>>,
             context_parts |-> <<>>]
       ELSE LET results == IF reranker THEN rerank(r.results, scores, k)
                           ELSE r.results
                n == Len(results)
            IN  [error |-> "",
                 sources |-> [j \in 1..n |-> results[j].metadata],
                 scores |-> [j \in 1..n |-> results[j].score],
                 context_parts |-> [j \in 1..n |-> results[j].metadata.text]] :
         r \in retrieved}

\* A call of run; the query embedding has the store's dimension, which the
\* pipeline took from its embedder (rag_pipeline.py 69-79).
Run(reranker, rerank_top_k, query_embedding, k, scores) ==
  /\ \E r \in run(store, reranker, rerank_top_k, query_embedding, k, scores) :
       ret' = Returned("run", r.error, k,
                       [reranker |-> reranker, rerank_top_k |-> rerank_top_k],
                       [sources |-> r.sources, scores |-> r.scores,
                        context_parts |-> r.context_parts])
  /\ UNCHANGED <<serverVars, libVars, store, storage>>

\* ------------------------------------------------------- chunk_documents
\* The documents of a call, as load_pdfs_from_directory hands them over:
\* one per page, in order, each with the number of tokens enc.encode finds
\* in its text.  No tokens stands for a page that is skipped (no content,
\* blank text, or nothing encoded: chunker.py 42-53).
PageOf(i) ==
  [filename |-> PyStr(IF i <= 2 THEN "a.pdf" ELSE "b.pdf"),
   page_number |-> PyInt(((i - 1) % 2) + 1)]

Documents ==
  UNION {[1..n -> 0..MaxTokens] : n \in 0..MaxDocs}

Document(i, tokens) == [tokens |-> tokens, metadata |-> PageOf(i)]

\* tokens[start:end] of document i; a token is named by its document and
\* its place, counted from 0
TokenWindow(i, start, end) ==
  [k \in 1..(end - start) |-> <<i, start + k - 1>>]

\* faulty variant: a negative overlap is let through
chunk_error_NegativeAllowed(chunk_size, overlap) ==
  IF overlap >= chunk_size THEN "overlap must be less than chunk_size"
  ELSE ""

\* chunker.py 23-26
chunk_error(chunk_size, overlap) ==
  IF overlap < 0 THEN "overlap must be non-negative"
  ELSE IF overlap >= chunk_size THEN "overlap must be less than chunk_size"
  ELSE ""

\* faulty variant: the window is not cut at the end of the document
window_end_Uncut(start, chunk_size, len_tokens) == start + chunk_size

\* chunker.py 60
window_end(start, chunk_size, len_tokens) == Min(start + chunk_size, len_tokens)

\* faulty variant: chunk_index runs on from the document before
enter_document_IndexKept(c) ==
  [c EXCEPT !.pc = "while", !.start = 0]

\* chunker.py 55-57
enter_document(c) ==
  [c EXCEPT !.pc = "while", !.start = 0, !.chunk_index = 0]

\* the call, up to the loop over the documents (chunker.py 15-37)
ChunkCall(tokens, chunk_size, overlap) ==
  /\ chunking.pc = "idle"
  /\ chunking' =
       [chunking EXCEPT
          !.pc = IF chunk_error(chunk_size, overlap) # "" THEN "raised" ELSE "for",
          !.documents = [i \in 1..Len(tokens) |-> Document(i, tokens[i])],
          !.chunk_size = chunk_size,
          !.overlap = overlap,
          !.doc = 1]
  /\ UNCHANGED <<serverVars, storeVars, singleton>>

\* the head of the for loop and the tests that skip a document (chunker.py
\* 39-57); after the last document the chunks are returned (72)
ChunkFor ==
  /\ chunking.pc = "for"
  /\ chunking' =
       IF chunking.doc > Len(chunking.documents)
       THEN [chunking EXCEPT !.pc = "returned"]
       ELSE IF chunking.documents[chunking.doc].tokens = 0
       THEN [chunking EXCEPT !.doc = @ + 1]
       ELSE enter_document(chunking)
  /\ UNCHANGED <<serverVars, storeVars, singleton>>

\* one turn of the while loop (chunker.py 59-70)
ChunkWhile ==
  /\ chunking.pc = "while"
  /\ LET document == chunking.documents[chunking.doc]
         step == chunking.chunk_size - chunking.overlap
         end  == window_end(chunking.start, chunking.chunk_size, document.tokens)
         window == TokenWindow(chunking.doc, chunking.start, end)
         chunk == [content |-> window,
                   metadata |-> [filename |-> document.metadata.filename,
                                 page_number |-> document.metadata.page_number,
                                 chunk_index |-> chunking.chunk_index,
                                 token_count |-> Len(window)]]
     IN  chunking' =
           IF chunking.start >= document.tokens
           THEN [chunking EXCEPT !.pc = "for", !.doc = @ + 1]
           ELSE IF end >= document.tokens
           THEN [chunking EXCEPT !.chunks = Append(@, chunk),
                                 !.pc = "for", !.doc = @ + 1]
           ELSE [chunking EXCEPT !.chunks = Append(@, chunk),
                                 !.start = @ + step,
                                 !.chunk_index = @ + 1]
  /\ UNCHANGED <<serverVars, storeVars, singleton>>

\* -------------------------------------------------- MultilingualEmbedder
\* MultilingualEmbedder(...) (embedder.py 17-30): __new__ makes the instance
\* if there is none, __init__ loads the model if there is none.  `outcome`
\* is "raise" when SentenceTransformer raises; the instance __new__ made
\* stays behind and nothing is returned.
construct(e, outcome) ==
  LET made     == e.instance = 0
      instance == IF made THEN e.instances + 1 ELSE e.instance
      loads    == e.model = 0
  IN  IF loads /\ outcome = "raise"
      THEN [e EXCEPT !.instance = instance,
                     !.instances = IF made THEN @ + 1 ELSE @,
                     !.op = "raised", !.result = 0, !.calls = @ + 1]
      ELSE [e EXCEPT !.instance = instance,
                     !.instances = IF made THEN @ + 1 ELSE @,
                     !.model = IF loads THEN e.models + 1 ELSE @,
                     !.models = IF loads THEN @ + 1 ELSE @,
                     !.op = "construct", !.result = instance,
                     !.calls = @ + 1, !.returned = @ + 1]

\* faulty variant: the model outlives the reset
reset_instance_ModelKept(e) ==
  [e EXCEPT !.instance = 0, !.op = "reset", !.result = 0,
            !.calls = @ + 1, !.returned = 0]

\* reset_instance (embedder.py 75-79)
reset_instance(e) ==
  [e EXCEPT !.instance = 0, !.model = 0, !.op = "reset", !.result = 0,
            !.calls = @ + 1, !.returned = 0]

Construct(outcome) ==
  /\ singleton.calls < MaxCalls
  /\ outcome = "raise" => singleton.model = 0
  /\ singleton' = construct(singleton, outcome)
  /\ UNCHANGED <<serverVars, storeVars, chunking>>

Reset ==
  /\ singleton.calls < MaxCalls
  /\ singleton' = reset_instance(singleton)
  /\ UNCHANGED <<serverVars, storeVars, chunking>>

\* ------------------------------------------------------------------ Next
Kinds == {"created", "modified", "deleted"}

\* ---------------------------------------------- _PDFWatchHandler dispatch
\* A path is the sequence of its characters.
SrcPaths ==
  { <<"a", ".", "p", "d", "f">>,
    <<"a", ".", "P", "D", "F">>,
    <<"a", ".", "p", "d", "f", "~">>,
    <<"a", ".", "t", "x", "t">>,
    <<"p", "d", "f">>,
    <<>> }

\* the events watchdog hands to the handler; FileSystemEventHandler leaves
\* on_moved and the other methods the class does not override empty
EventTypes == Kinds \cup {"moved"}

FileSystemEvents ==
  [event_type : EventTypes, is_directory : BOOLEAN, src_path : SrcPaths]

\* str.lower on the characters in use
lower(path) ==
  [i \in 1..Len(path) |->
     CASE path[i] = "P" -> "p"
       [] path[i] = "D" -> "d"
       [] path[i] = "F" -> "f"
       [] OTHER -> path[i]]

\* str.endswith
endswith(path, suffix) ==
  /\ Len(path) >= Len(suffix)
  /\ SubSeq(path, Len(path) - Len(suffix) + 1, Len(path)) = suffix

\* faulty variant: the extension is compared as written
is_pdf_CaseSensitive(path) ==
  /\ path # <<>>
  /\ ~endswith(path, <<"~">>)
  /\ endswith(path, <<".", "p", "d", "f">>)

\* _is_pdf (main.py 131-132)
is_pdf(path) ==
  /\ path # <<>>
  /\ ~endswith(path, <<"~">>)
  /\ endswith(lower(path), <<".", "p", "d", "f">>)

\* on_created / on_modified / on_deleted (main.py 134-144) reach _schedule
Schedules(event) ==
  /\ event.event_type \in Kinds
  /\ ~event.is_directory
  /\ is_pdf(event.src_path)

\* The observer thread hands one event to the handler.  The log keeps the
\* last event with what the handler did on it.
Dispatch(event) ==
  /\ phase = "running"
  /\ \E i \in Requests : reqs[i] = "none"
  /\ IF Schedules(event)
     THEN Schedule(clock)
     ELSE UNCHANGED <<last_triggered, reqs>>
  /\ evLog' = << [t |-> clock, last |-> last_triggered,
                  after |-> last_triggered',
                  emitted |-> Cardinality(Scheduled(reqs'))
                                - Cardinality(Scheduled(reqs)),
                  event |-> event] >>
  /\ UNCHANGED <<phase, clock, srcVars, diskVars, rag_pipeline, index_state,
                 lock, buildVars, queries, unindexed, missedInFlight, skipped,
                 diskBefore, storeVars, libVars>>

\* The index lifecycle: startup, the watcher, rebuilds with every failure
\* a build can meet, shutdown.
Lifecycle(outs) ==
  \/ StartupNoIndex
  \/ StartupLoad
  \/ Shutdown
  \/ \E d \in {COOLDOWN} : Tick(d)
  \/ \E f \in EventFiles, kind \in Kinds : FsEvent(f, kind)
  \/ \E i \in Requests : RebuildSkip(i)
  \/ \E i \in Requests : RebuildEnter(i)
  \/ BuildStep(outs)
  \/ \E i \in Requests : RebuildBuilt(i)
  \/ \E i \in Requests : RebuildPublish(i)
  \/ \E i \in Requests : RebuildBuildFailed(i)
  \/ \E i \in Requests : RebuildConstructFailed(i)

Next == Lifecycle(Outcomes)

Spec == Init /\ [][Next]_vars

\* What a rebuild that has started does next: a stage of build_index in its
\* worker thread, or the coroutine resuming after an await.
RebuildProgress ==
  \/ BuildStep(Outcomes)
  \/ \E i \in Requests : RebuildBuilt(i)
  \/ \E i \in Requests : RebuildPublish(i)
  \/ \E i \in Requests : RebuildBuildFailed(i)
  \/ \E i \in Requests : RebuildConstructFailed(i)

\* The lifecycle when every call a rebuild makes returns or raises and the
\* event loop resumes the coroutine that awaits it.
SpecLive == Spec /\ WF_vars(RebuildProgress)

\* Queries with a well-formed question against the lifecycle.  Of the faults
\* of a build this keeps the writes that leave a truncated file; a rebuild
\* also fails on an empty directory and in the pipeline constructor.
NextQuery ==
  \/ Lifecycle({"ok", "truncated"})
  \/ \E q \in 1..MaxQueries : QueryCall(q, <<"x">>)
  \/ \E q \in 1..MaxQueries : QueryAsk(q)

SpecQuery == Init /\ [][NextQuery]_vars

\* Queries with any question against a server that starts and then rebuilds
\* once, on the first change of the directory; the build fails by an
\* exception of a collaborator or on an empty directory, the constructor may
\* fail too.  The requests come one at a time: a handler shares nothing with
\* another but rag_pipeline, which it only reads.
NextAsk ==
  \/ StartupNoIndex
  \/ StartupLoad
  \/ \E f \in EventFiles, kind \in Kinds : FsEvent(f, kind)
  \/ \E i \in Requests : RebuildEnter(i)
  \/ BuildStep({"ok", "raise"})
  \/ \E i \in Requests : RebuildBuilt(i)
  \/ \E i \in Requests : RebuildPublish(i)
  \/ \E i \in Requests : RebuildBuildFailed(i)
  \/ \E i \in Requests : RebuildConstructFailed(i)
  \/ \E question \in Questions : QueryCall(1, question)
  \/ QueryAsk(1)

SpecAsk == Init /\ [][NextAsk]_vars

\* The watcher alone, on a clock that advances second by second; the event
\* loop takes the emitted requests, no build makes progress.
NextWatcher ==
  \/ StartupNoIndex
  \/ StartupLoad
  \/ \E d \in 1..COOLDOWN : Tick(d)
  \/ \E f \in EventFiles, kind \in Kinds : FsEventLogged(f, kind)
  \/ \E i \in Requests : RebuildSkip(i)
  \/ \E i \in Requests : RebuildEnter(i)

SpecWatcher == Init /\ [][NextWatcher]_vars

\* The handler alone, given every kind of event the observer can deliver,
\* on a server started without an index; the emitted requests stay with the
\* event loop.
InitDispatch == Init /\ diskIndex = Absent /\ pdfFiles = {}

NextDispatch ==
  \/ StartupNoIndex
  \/ \E d \in 1..COOLDOWN : Tick(d)
  \/ \E event \in FileSystemEvents : Dispatch(event)

SpecDispatch == InitDispatch /\ [][NextDispatch]_vars

\* build_index alone, called once (build_index.py, the tests): any source
\* directory, any earlier content of the output path.
DiskNow == <<outDirExists, diskIndex, diskMeta, diskBuild>>

InitBuild ==
  /\ phase = "init"
  /\ clock = COOLDOWN
  /\ pdfDirExists \in BOOLEAN
  /\ pdfFiles \in SUBSET Files
  /\ (~pdfDirExists => pdfFiles = {})
  /\ diskIndex \in {Absent, Partial} \cup {Written(d) : d \in Contents}
  /\ diskMeta \in {Absent, Partial} \cup {Written(d) : d \in Contents}
  /\ diskBuild \in {Absent, Written({})}
  /\ outDirExists \in BOOLEAN
  /\ (~outDirExists => diskIndex = Absent /\ diskMeta = Absent /\ diskBuild = Absent)
  /\ rag_pipeline = NoPipeline
  /\ index_state = InitialIndexState
  /\ lock = FALSE
  /\ reqs = [i \in Requests |-> "none"]
  /\ bpc = "load" /\ bdocs = {} /\ berr = ""
  /\ last_triggered = 0
  /\ queries = [q \in 1..MaxQueries |-> IdleQuery]
  /\ unindexed = FALSE /\ missedInFlight = FALSE /\ skipped = FALSE
  /\ evLog = <<>>
  /\ diskBefore = DiskNow
  /\ StoreIdle

NextBuild == BuildStep(Outcomes)

SpecBuild == InitBuild /\ [][NextBuild]_vars

\* no server: the lifecycle variables at rest
ServerIdle ==
  /\ phase = "init"
  /\ clock = COOLDOWN
  /\ pdfDirExists = FALSE /\ pdfFiles = {}
  /\ outDirExists = FALSE
  /\ diskIndex = Absent /\ diskMeta = Absent /\ diskBuild = Absent
  /\ rag_pipeline = NoPipeline
  /\ index_state = InitialIndexState
  /\ lock = FALSE
  /\ reqs = [i \in Requests |-> "none"]
  /\ bpc = "idle" /\ bdocs = {} /\ berr = ""
  /\ last_triggered = 0
  /\ queries = [q \in 1..MaxQueries |-> IdleQuery]
  /\ unindexed = FALSE /\ missedInFlight = FALSE /\ skipped = FALSE
  /\ evLog = <<>>
  /\ diskBefore = <<>>

\* A store in memory (the tests of the store and of the retriever): created
\* with either dimension, filled by add_embeddings, searched.
InitStore ==
  /\ ServerIdle
  /\ store \in {FaissVectorStore(d) : d \in Dims}
  /\ storage = [f \in FileNames |-> NoFile]
  /\ ret = NoReturn
  /\ LibIdle

NextStore ==
  \/ \E embeddings \in Batches, metadata \in MetadataLists : Add(embeddings, metadata)
  \/ \E d \in Dims : \E query_vector \in Vectors(d), k \in 1..MaxK :
       Search(query_vector, k)

SpecStore == InitStore /\ [][NextStore]_vars

\* A store filled, saved and loaded again, in the order of the program:
\* build_index makes a store, fills it and saves it (indexer.py 80-86);
\* RAGPipeline.__init__ makes a store and loads it (rag_pipeline.py 78-79),
\* and a store whose load raised goes no further.  The rows come one at a
\* time, each with its own metadata, so that order shows.
Pairs(d) ==
  {<<Axis(d, 1, 2), [filename |-> PyStr("a.pdf"), page_number |-> PyInt(1),
                     text |-> PyStr("alpha")]>>,
   <<Axis(d, 2, 1), [filename |-> PyStr("b.pdf"), page_number |-> PyInt(2),
                     text |-> PyStr("beta")]>>}

Filling == ret.op \in {"none", "new", "add"}

NextPersist ==
  \/ \E d \in Dims : ~Filling /\ NewStore(d)
  \/ \E p \in Pairs(store.embedding_dim) :
       Filling /\ Add(<<p[1]>>, <<p[2]>>)
  \/ \E path \in Paths, outcome \in {"ok", "killed"} :
       Filling /\ Save(path, outcome)
  \/ \E d \in Dims, path \in Paths : ~Filling /\ Load(d, path)

SpecPersist == InitStore /\ [][NextPersist]_vars

\* One store through its life: rows are added, batches are refused, it is
\* searched, saved (the save may be cut short) and loaded again from
\* whatever the paths hold, which stores of either dimension have written.
NextIndex ==
  \/ \E d \in Dims : ret.op \in {"save", "load"} /\ NewStore(d)
  \/ \E p \in Pairs(store.embedding_dim) : \E metadata \in {<<>>, <<p[2]>>} :
       Filling /\ Add(<<p[1]>>, metadata)
  \/ \E query_vector \in {Axis(store.embedding_dim, 1, 1)}, k \in {1, MaxK} :
       ret.op # "search" /\ Search(query_vector, k)
  \/ \E path \in Paths, outcome \in {"ok", "killed"} :
       ret.op # "save" /\ Save(path, outcome)
  \/ \E path \in Paths : LoadInto(path)

SpecIndex == InitStore /\ [][NextIndex]_vars

\* A store filled row by row, a reranker called on candidate lists, and a
\* pipeline over the store, with and without a reranker, asked to run.
\* Neither call changes the store or depends on the call before it, so a
\* run is followed from the store as it was filled; rerank reads no store
\* at all and is followed from the start.
NextRetrieval ==
  \/ \E p \in Pairs(store.embedding_dim) :
       Filling /\ Add(<<p[1]>>, <<p[2]>>)
  \/ \E results \in Candidates, top_k \in 0..MaxK :
       \E scores \in [1..Len(results) -> RerankScores] :
         ret.op = "none" /\ Rerank(results, scores, top_k)
  \/ \E reranker \in BOOLEAN, rerank_top_k \in Ceilings, k \in 1..MaxK :
       \E query_embedding \in Vectors(store.embedding_dim),
          scores \in [1..MaxRows -> RerankScores] :
         Filling /\ Run(reranker, rerank_top_k, query_embedding, k, scores)

SpecRetrieval == InitStore /\ [][NextRetrieval]_vars

\* nothing has been called yet
InitChunk == ServerIdle /\ StoreIdle

\* Calls on the MultilingualEmbedder class, one after the other: in the
\* server the constructor runs at startup and then inside build_index and
\* RAGPipeline, which one rebuild at a time calls in turn.
NextEmbedder ==
  \/ \E outcome \in {"ok", "raise"} : Construct(outcome)
  \/ Reset

SpecEmbedder == InitChunk /\ [][NextEmbedder]_vars

\* One call of chunk_documents, with any documents and any parameters,
\* followed through its loops.
ChunkProgress == ChunkFor \/ ChunkWhile

NextChunk ==
  \/ \E tokens \in Documents :
       \E chunk_size \in 0..MaxChunkSize, overlap \in (-1)..MaxChunkSize :
         ChunkCall(tokens, chunk_size, overlap)
  \/ ChunkFor
  \/ ChunkWhile

SpecChunk == InitChunk /\ [][NextChunk]_vars

\* chunk_documents is an ordinary function: once called it keeps running
SpecChunkLive == SpecChunk /\ WF_vars(ChunkProgress)

\* ================================================================ claims
\* a rebuild between its start (lock taken, status indexing) and its swap
\* or failure
Executing(i) == reqs[i] \in {"build", "construct"}

ExecutingSet == {i \in Requests : Executing(i)}

\* C1: single-flight.  At every moment at most one rebuild is between its
\* start and its swap or failure; the lock is held exactly while one is,
\* and build_index runs only on behalf of it.
C1_SingleFlight ==
  /\ Cardinality(ExecutingSet) <= 1
  /\ lock <=> (ExecutingSet # {})
  /\ (bpc # "idle") => (ExecutingSet # {})

\* a second request is waiting for the event loop while a rebuild executes
C1_Witness ==
  /\ \E i \in Requests : reqs[i] = "construct"
  /\ \E j \in Requests : reqs[j] = "scheduled"

Counts(st) == <<st.doc_count, st.chunk_count, st.embedding_dim, st.last_indexed>>

\* C3: a rebuild that fails leaves the published pipeline and the counts and
\* timestamp of IndexState as they were throughout the rebuild, sets status
\* to error and records the error; and once a pipeline is published, no step
\* of a running server (a failed rebuild in particular) unpublishes it.
C3_FailureKeepsPublished ==
  [][ /\ (phase' = "running" /\ index_state.status = "indexing"
            /\ index_state'.status # "ready")
        => /\ rag_pipeline' = rag_pipeline
           /\ Counts(index_state') = Counts(index_state)
           /\ index_state'.status \in {"indexing", "error"}
           /\ (index_state'.status = "error" => index_state'.last_error # "")
      /\ (phase' = "running" /\ rag_pipeline.exists) => rag_pipeline'.exists
    ]_vars

\* a rebuild failed while writing, the index published before it still serves
\* with its counts
C3_Witness ==
  /\ phase = "running"
  /\ index_state.status = "error"
  /\ index_state.last_error = "OSError"
  /\ rag_pipeline.exists
  /\ rag_pipeline.index # diskIndex.docs
  /\ index_state.chunk_count = NumChunks(rag_pipeline.index)

\* C4: a request the event loop takes up while a rebuild is executing returns
\* at once: its coroutine is gone (not queued), no build starts, and status,
\* lastError, the counts, the lock, the build and the published reference
\* are unchanged.
C4_RequestIgnored ==
  [][ \A i \in Requests :
        (lock /\ reqs[i] = "scheduled" /\ reqs'[i] # "scheduled")
          => /\ reqs'[i] = "none"
             /\ \A j \in Requests \ {i} : reqs'[j] = reqs[j]
             /\ UNCHANGED <<index_state, rag_pipeline, lock, bpc, bdocs, berr,
                            outDirExists, diskIndex, diskMeta, diskBuild>>
    ]_vars

\* a request was skipped and the rebuild it met is still executing
C4_Witness ==
  /\ skipped
  /\ lock
  /\ index_state.status = "indexing"
  /\ \E i \in Requests : reqs[i] = "build"
  /\ \A j \in Requests : reqs[j] # "scheduled"

\* no _rebuild_and_swap coroutine is scheduled or executing
Quiescent == phase = "running" /\ \A i \in Requests : reqs[i] = "none"

\* C5: a change that lands while a rebuild is executing is followed by a
\* rebuild that starts after it, and so reads the directory after it.  When
\* nothing is scheduled or executing no rebuild starts unless a new event
\* comes, so then no change that landed during a rebuild may be newer than
\* the last directory read.
C5_InFlightChangeRebuilt == Quiescent => ~missedInFlight

\* C7: after a burst of events a rebuild runs that started at or after the
\* last event, and so reads the directory after it.  When nothing is
\* scheduled or executing no rebuild starts unless a new event comes, so
\* then no change may be newer than the last directory read.
C7_FinalStateIndexed == Quiescent => ~unindexed

\* C8: status follows the lifecycle state machine.  It leaves initializing
\* only at startup, for no_index (no index file) or ready (pipeline loaded);
\* it becomes indexing only from no_index, ready or error and only when a
\* request is accepted; it leaves indexing only for ready (the rebuild
\* published) or error (the rebuild failed).
C8_StatusMachine ==
  [][ index_state'.status # index_state.status =>
        LET a == index_state.status
            b == index_state'.status
        IN  \/ /\ a = "initializing" /\ phase = "init" /\ phase' = "running"
               /\ \/ b = "no_index" /\ diskIndex.st = "absent" /\ ~rag_pipeline'.exists
                  \/ b = "ready" /\ diskIndex.st # "absent" /\ rag_pipeline'.exists
            \/ /\ a \in {"no_index", "ready", "error"} /\ b = "indexing"
               /\ \E i \in Requests : reqs[i] = "scheduled" /\ reqs'[i] = "build"
            \/ /\ a = "indexing" /\ b = "ready"
               /\ \E i \in Requests : reqs[i] = "construct" /\ reqs'[i] = "none"
               /\ rag_pipeline'.exists
            \/ /\ a = "indexing" /\ b = "error"
               /\ \E i \in Requests : Executing(i) /\ reqs'[i] = "none"
    ]_vars

\* a server that started without an index failed its first rebuild and has
\* accepted the next request
C8_Witness ==
  /\ index_state.status = "indexing"
  /\ index_state.last_error # ""
  /\ ~rag_pipeline.exists
  /\ index_state.last_indexed = -1

\* a pipeline whose store was loaded whole: payload and sidecar both read
\* and of the same length (faiss_store.py 158-168)
Complete(p) ==
  /\ p.exists
  /\ p.index \in Contents
  /\ p.metadata \in Contents
  /\ NumChunks(p.index) = NumChunks(p.metadata)

\* C2: snapshot isolation.  A query answers from the pipeline that was
\* published when it was called, whatever is published when its worker
\* thread runs; and the published pipeline, like every pipeline a running
\* or finished query holds, is a completely loaded one.
C2_SnapshotIsolation ==
  /\ rag_pipeline.exists => Complete(rag_pipeline)
  /\ \A q \in 1..MaxQueries :
       /\ queries[q].pc = "asking" => Complete(queries[q].ref)
       /\ (queries[q].pc = "done" /\ queries[q].outcome \notin {"400", "none"}
             /\ queries[q].ref.exists)
            => /\ queries[q].used = queries[q].ref
               /\ Complete(queries[q].used)

\* a query answered from the generation it was called on although a rebuild
\* had published another one before its worker thread ran
C2_Witness ==
  \E q \in 1..MaxQueries :
    /\ queries[q].pc = "done"
    /\ queries[q].outcome = "200"
    /\ queries[q].used = queries[q].ref
    /\ rag_pipeline.exists
    /\ rag_pipeline # queries[q].ref

\* events of the log that fall in the cooldown window opened by event k
Window(k) ==
  {j \in k..Len(evLog) : evLog[j].t - evLog[k].t < COOLDOWN}

\* C6: debounce.  An event whose elapsed time since _last_triggered is below
\* the cooldown emits nothing and leaves _last_triggered; any other event
\* sets _last_triggered to its time and emits exactly one request; so the
\* events within the cooldown window that an emitting event opens, however
\* many, produce exactly one request.
C6_Debounce ==
  \A k \in 1..Len(evLog) :
    LET e == evLog[k]
    IN  /\ e.t - e.last < COOLDOWN  => e.emitted = 0 /\ e.after = e.last
        /\ e.t - e.last >= COOLDOWN => e.emitted = 1 /\ e.after = e.t
        /\ e.emitted = 1 =>
             /\ \A j \in Window(k) \ {k} : evLog[j].emitted = 0
             /\ Cardinality({j \in Window(k) : evLog[j].emitted = 1}) = 1

\* three events in one window produced one request, and the event exactly
\* one cooldown after the first produced the next
C6_Witness ==
  /\ Len(evLog) = 4
  /\ Cardinality(Window(1)) = 3
  /\ evLog[1].emitted = 1 /\ evLog[2].emitted = 0 /\ evLog[3].emitted = 0
  /\ evLog[4].t - evLog[1].t = COOLDOWN
  /\ evLog[4].emitted = 1

\* C9: build is all-or-nothing on disk.  A build that failed has left the
\* vector payload, the metadata sidecar and the build-config sidecar at the
\* output path as they were before it started.
C9_BuildAllOrNothing ==
  bpc = "failed" =>
    <<diskIndex, diskMeta, diskBuild>>
      = <<diskBefore[2], diskBefore[3], diskBefore[4]>>

\* the source directory yields no documents: missing, empty, or holding
\* only files without extractable text
NoDocuments ==
  \/ ~pdfDirExists
  \/ \A f \in pdfFiles : FileKind(f) # "text"

\* C10: a build over a source directory that yields no documents fails with
\* NoDocumentsFoundError, and the output directory and the artifacts at the
\* output path are as they were before it started.
C10_NoDocumentsNoOutput ==
  (NoDocuments /\ bpc # "load")
    => /\ bpc = "failed"
       /\ berr = "NoDocumentsFound"
       /\ DiskNow = diskBefore

\* a directory holding only a scanned PDF: the build failed and the output
\* directory, absent before, was not created
C10_Witness ==
  /\ pdfDirExists
  /\ pdfFiles = {"scan.pdf"}
  /\ bpc = "failed"
  /\ berr = "NoDocumentsFound"
  /\ ~outDirExists

\* C11: a rebuild that started runs to completion or failure.  While the
\* server keeps running, a held lock is eventually released and status
\* indexing eventually becomes ready or error; a rebuild stops executing only
\* by its swap or its failure, which release the lock and leave status ready
\* or error; and a request taken up meanwhile leaves the executing rebuild
\* and its build where they are.
C11_RebuildTerminates ==
  /\ lock ~> (~lock \/ phase = "stopped")
  /\ (index_state.status = "indexing")
       ~> (index_state.status \in {"ready", "error"} \/ phase = "stopped")
  /\ [][ \A i \in Requests :
           /\ (Executing(i) /\ reqs'[i] = "none")
                => /\ ~lock'
                   /\ index_state'.status \in {"ready", "error"}
                   /\ \A j \in Requests \ {i} : reqs'[j] = reqs[j]
           /\ (Executing(i) /\ \E j \in Requests :
                                 reqs[j] = "scheduled" /\ reqs'[j] # "scheduled")
                => reqs'[i] = reqs[i] /\ bpc' = bpc /\ lock'
       ]_vars

\* a rebuild published its index although a later request was taken up,
\* and returned, while it was executing
C11_Witness ==
  /\ skipped
  /\ ~lock
  /\ index_state.status = "ready"
  /\ \A i \in Requests : ~Executing(i)

\* C12: queries are never blocked by a rebuild.  Whatever the lock, a
\* running server takes a question and a worker thread answers one that was
\* handed to it; no step of a query touches the lock, the requests or the
\* status; a well-formed question asked while an index is published is
\* bound to that index at once, rebuild or not, and is answered from it.
C12_QueriesNotBlocked ==
  /\ [](\A q \in 1..MaxQueries :
          /\ (phase = "running" /\ queries[q].pc \in {"idle", "done"})
               => ENABLED QueryCall(q, <<"x">>)
          /\ queries[q].pc = "asking" => ENABLED QueryAsk(q))
  /\ [][ \A q \in 1..MaxQueries :
           queries'[q] # queries[q]
             => /\ UNCHANGED <<lock, reqs, index_state, bpc, rag_pipeline>>
                /\ (queries'[q].pc = "asking" /\ rag_pipeline.exists)
                     => queries'[q].ref = rag_pipeline
                /\ (queries[q].pc = "asking")
                     => /\ queries'[q].pc = "done"
                        /\ queries'[q].used = queries[q].ref
       ]_vars

\* a query called while a rebuild was executing has its answer from the
\* published index while a rebuild is still executing
C12_Witness ==
  \E q \in 1..MaxQueries :
    /\ queries[q].pc = "done"
    /\ queries[q].outcome = "200"
    /\ queries[q].locked
    /\ lock
    /\ index_state.status = "indexing"
    /\ queries[q].used = rag_pipeline

\* C13: a query issued while no pipeline has been published (status
\* no_index, or indexing or error with every build so far unfinished or
\* failed) is answered 503 with the generic message and goes no further:
\* nothing is handed to a worker thread, and a question a worker thread holds
\* is bound to a published pipeline.  A running server without a pipeline
\* is in one of those three states.
C13_NoIndexUnavailable ==
  /\ [](\A q \in 1..MaxQueries :
          /\ queries[q].pc = "asking" => queries[q].ref.exists
          /\ queries[q].outcome = "200" => queries[q].used.exists)
  /\ [](phase = "running" /\ ~rag_pipeline.exists
          => index_state.status \in {"no_index", "indexing", "error"})
  /\ [][ \A q \in 1..MaxQueries :
           (queries'[q] # queries[q] /\ queries[q].pc # "asking"
              /\ ~rag_pipeline.exists)
             => /\ queries'[q].pc = "done"
                /\ queries'[q].outcome = "503"
                /\ queries'[q].detail = SERVICE_UNAVAILABLE_MESSAGE
                /\ ~queries'[q].ref.exists /\ ~queries'[q].used.exists
                /\ queries'[q].arg = <<>>
       ]_vars

\* a well-formed question got 503 from a server whose first build failed
C13_Witness ==
  \E q \in 1..MaxQueries :
    /\ index_state.status = "error"
    /\ ~rag_pipeline.exists
    /\ queries[q].pc = "done"
    /\ queries[q].outcome = "503"
    /\ queries[q].question = <<"x", "x">>
    /\ ~queries[q].locked

\* the question holds nothing but blanks
Blank(question) == \A i \in 1..Len(question) : question[i] = " "

\* the length of the question between its first and its last non-blank
TrimmedLen(question) ==
  IF Blank(question) THEN 0
  ELSE LET nb == {i \in 1..Len(question) : question[i] # " "}
       IN  (CHOOSE i \in nb : \A j \in nb : j <= i)
             - (CHOOSE i \in nb : \A j \in nb : i <= j) + 1

\* the question breaks a constraint: empty after trimming, or longer than
\* the configured maximum
Invalid(question) ==
  Blank(question) \/ TrimmedLen(question) > documind_max_question_length

\* C14 as stated: in every index state a finished query whose question is
\* empty after trimming or too long was rejected with a validation error.
C14_InvalidAlwaysRejected ==
  \A q \in 1..MaxQueries :
    (queries[q].pc = "done" /\ Invalid(queries[q].question))
      => queries[q].outcome = "400"

\* C14, amended: while a pipeline is published, a question that is empty
\* after trimming is rejected with 400 "question must be non-empty", one
\* longer than the maximum after trimming with 400 "question must be at most
\* ... characters", and neither is handed to the pipeline; any other question
\* is handed over trimmed.  While none is published every question gets 503
\* with the generic message, and so does every failure of the pipeline.
C14_InvalidRejectedWhenPublished ==
  [][ \A q \in 1..MaxQueries :
        /\ (queries'[q] # queries[q] /\ queries[q].pc # "asking")
             => LET r == queries'[q]
                IN  CASE ~rag_pipeline.exists ->
                           /\ r.pc = "done" /\ r.outcome = "503"
                           /\ r.detail = SERVICE_UNAVAILABLE_MESSAGE
                      [] rag_pipeline.exists /\ Blank(r.question) ->
                           /\ r.pc = "done" /\ r.outcome = "400"
                           /\ r.detail = "question must be non-empty"
                      [] rag_pipeline.exists /\ ~Blank(r.question)
                           /\ Invalid(r.question) ->
                           /\ r.pc = "done" /\ r.outcome = "400"
                           /\ r.detail = "question must be at most max_len characters"
                      [] OTHER ->
                           /\ r.pc = "asking"
                           /\ Len(r.arg) = TrimmedLen(r.question)
                           /\ ~Blank(r.arg)
                           /\ r.arg[1] # " " /\ r.arg[Len(r.arg)] # " "
        /\ (queries[q].pc = "asking" /\ queries'[q] # queries[q])
             => /\ queries'[q].outcome \in {"200", "503"}
                /\ queries'[q].outcome = "503"
                     => queries'[q].detail = SERVICE_UNAVAILABLE_MESSAGE
    ]_vars

\* with an index published, a question of three blanks, longer than the
\* maximum as sent, was rejected as empty
C14_Witness ==
  \E q \in 1..MaxQueries :
    /\ rag_pipeline.exists
    /\ index_state.status = "ready"
    /\ queries[q].pc = "done"
    /\ queries[q].question = <<" ", " ", " ">>
    /\ queries[q].outcome = "400"
    /\ queries[q].detail = "question must be non-empty"

\* result j of the last call is row i of the store: its metadata, with the
\* cosine of the query and the row as score
IsRow(j, i) ==
  LET row == store.index.rows[i]
      q   == ret.input
  IN  /\ ret.results[j][2] = store.metadata[i]
      /\ ret.results[j][1] * Norm(q) * Norm(row) = Dot(q, row)

\* C15: a search with a query of the store's dimension and k >= 1 returns
\* min(k, rows) pairs, scores non-increasing, each pair the metadata and the
\* cosine score of a row of the store, no row twice; a store without rows,
\* built or not, returns the empty list.
C15_SearchTopK ==
  (ret.op = "search" /\ Len(ret.input) = store.embedding_dim) =>
    LET n == Len(store.index.rows)
        m == Len(ret.results)
    IN  /\ ret.error = ""
        /\ m = Min(ret.k, n)
        /\ n = 0 => ret.results = <<>>
        /\ \A a, b \in 1..m : a < b => ret.results[a][1] >= ret.results[b][1]
        /\ \E ids \in [1..m -> 1..n] :
             /\ \A a, b \in 1..m : a # b => ids[a] # ids[b]
             /\ \A j \in 1..m : IsRow(j, ids[j])

\* one of two rows was returned, the second added; the row left out scores
\* lower
C15_Witness ==
  /\ ret.op = "search" /\ ret.error = ""
  /\ ret.k = 1
  /\ Len(store.index.rows) = 2
  /\ Len(ret.results) = 1
  /\ IsRow(1, 2)
  /\ Dot(normalize_vectors(ret.input), store.index.rows[1]) < ret.results[1][1]

\* C16: add_embeddings rejects a batch exactly when its width differs from
\* the store's dimension or its metadata list is not as long as it has rows;
\* a rejected call leaves the rows and the metadata of the store as they
\* were, an accepted one appends one row and one metadata entry per row of
\* the batch.
C16_AddRejects ==
  [][ (ret'.op = "add" /\ <<store, ret>>' # <<store, ret>>) =>
        LET d == ret'.input[1]
            n == ret'.input[2]
            m == ret'.input[3]
        IN  /\ (d # store.embedding_dim) => ret'.error = "DimensionMismatch"
            /\ (d = store.embedding_dim /\ m # n)
                 => ret'.error = "MetadataCountMismatch"
            /\ (d = store.embedding_dim /\ m = n) => ret'.error = ""
            /\ ret'.error # ""
                 => /\ store'.index.rows = store.index.rows
                    /\ store'.metadata = store.metadata
            /\ ret'.error = ""
                 => /\ Len(store'.index.rows) = Len(store.index.rows) + n
                    /\ Len(store'.metadata) = Len(store.metadata) + n
                    /\ SubSeq(store'.index.rows, 1, Len(store.index.rows))
                         = store.index.rows
                    /\ SubSeq(store'.metadata, 1, Len(store.metadata))
                         = store.metadata
    ]_vars

\* a batch one coordinate short was rejected by a store of the model's
\* dimension that holds rows
C16_Witness ==
  /\ ret.op = "add"
  /\ ret.error = "DimensionMismatch"
  /\ ret.input[1] = Dim - 1
  /\ store.embedding_dim = Dim
  /\ Len(store.index.rows) = 1
  /\ Len(store.metadata) = 1

\* two stores answer every search alike
SameAnswers(s, t) ==
  \A d \in Dims : \A query_vector \in Vectors(d), k \in 1..MaxK :
    search(s, query_vector, k) = search(t, query_vector, k)

C18_LoadChecks ==
  ret.op = "load" =>
    LET payload == storage[IndexPath(ret.path)]
        sidecar == storage[MetaPath(ret.path)]
        embedding_dim == ret.input[1]
    IN  IF payload = NoFile \/ sidecar = NoFile
        THEN ret.error = "FileNotFoundError"
        ELSE /\ payload.d # embedding_dim => ret.error = "DimensionMismatch"
             /\ (payload.d = embedding_dim
                   /\ Len(sidecar.text) # Len(payload.rows))
                  => ret.error = "MetadataCountMismatch"
             /\ ret.error = ""
                  <=> (payload.d = embedding_dim
                         /\ Len(sidecar.text) = Len(payload.rows))
             /\ store.built <=> ret.error = ""

\* a payload of two rows beside a sidecar of one entry was refused
C18_Witness ==
  /\ ret.op = "load"
  /\ ret.error = "MetadataCountMismatch"
  /\ Len(storage[IndexPath(ret.path)].rows) = 2
  /\ Len(storage[MetaPath(ret.path)].text) = 1
  /\ ~store.built

\* C19: rerank reorders and truncates, nothing else.  For top_k >= 0 it
\* returns min(top_k, candidates) dicts, so at most top_k; each is a
\* candidate of the input at a place of its own, with the score predicted
\* for it; the scores do not increase down the list; no candidate left out
\* was scored higher than one returned; no candidates give no results.
C19_RerankReorders ==
  ret.op = "rerank" =>
    LET n == Len(ret.input)
        m == Len(ret.results)
    IN  /\ m <= ret.k
        /\ m = Min(ret.k, n)
        /\ n = 0 => ret.results = <<>>
        /\ \A a, b \in 1..m : a < b => ret.results[a].score >= ret.results[b].score
        /\ \E ids \in [1..m -> 1..n] :
             /\ \A a, b \in 1..m : a # b => ids[a] # ids[b]
             /\ \A j \in 1..m :
                  /\ ret.results[j].metadata = ret.input[ids[j]].candidate.metadata
                  /\ ret.results[j].score = ret.input[ids[j]].predicted
             /\ \A i \in 1..n :
                  (\A j \in 1..m : ids[j] # i)
                    => \A j \in 1..m : ret.results[j].score >= ret.input[i].predicted

\* three candidates of different metadata came back as two, the last of the
\* input first
C19_Witness ==
  /\ ret.op = "rerank"
  /\ ret.k = 2
  /\ Len(ret.input) = 3
  /\ Len(ret.results) = 2
  /\ ret.input[1].predicted < ret.input[2].predicted
  /\ ret.input[2].predicted < ret.input[3].predicted
  /\ ret.input[1].candidate.metadata # ret.input[3].candidate.metadata
  /\ ret.results[1].metadata = ret.input[3].candidate.metadata

\* the rows of the store a pipeline runs over
Rows == Len(store.index.rows)

\* C20 as stated: run returns exactly min(top_k, rows) sources and as many
\* scores, with or without a reranker.
C20_RunRespectsTopK ==
  (ret.op = "run" /\ ret.error = "") =>
    /\ Len(ret.results.sources) = Min(ret.k, Rows)
    /\ Len(ret.results.scores) = Len(ret.results.sources)

\* C20, amended: without a reranker run returns exactly min(top_k, rows)
\* sources; with one, exactly min(top_k, rerank_top_k, rows), since no more
\* than rerank_top_k candidates are retrieved; the scores are as many as the
\* sources either way.
C20_RunRespectsTopKAndCeiling ==
  (ret.op = "run" /\ ret.error = "") =>
    /\ Len(ret.results.sources)
         = IF ret.input.reranker
           THEN Min(ret.k, Min(ret.input.rerank_top_k, Rows))
           ELSE Min(ret.k, Rows)
    /\ Len(ret.results.scores) = Len(ret.results.sources)

\* with a reranker and a ceiling of one candidate, a run for two sources
\* over a store of two rows gave one
C20_Witness ==
  /\ ret.op = "run" /\ ret.error = ""
  /\ ret.input.reranker
  /\ ret.input.rerank_top_k = 1
  /\ ret.k = 2
  /\ Rows = 2
  /\ Len(ret.results.sources) = 1

\* the call's parameters are ones chunk_documents takes
ValidSplit ==
  0 <= chunking.overlap /\ chunking.overlap < chunking.chunk_size

\* C21: a call with overlap >= chunk_size or with a negative overlap is
\* rejected and produces no chunks; a call with 0 <= overlap < chunk_size
\* is accepted.
C21_SplitRejected ==
  chunking.pc # "idle" =>
    /\ ~ValidSplit => (chunking.pc = "raised" /\ chunking.chunks = <<>>)
    /\ ValidSplit => chunking.pc # "raised"

\* a call with overlap = chunk_size over a document with tokens was rejected
C21_Witness ==
  /\ chunking.pc = "raised"
  /\ chunking.chunk_size = 2
  /\ chunking.overlap = chunking.chunk_size
  /\ Len(chunking.documents) >= 1
  /\ chunking.documents[1].tokens >= 1

\* the chunks made so far from document i, in order
FragmentsOf(i) ==
  LET OfDoc(c) == c.content[1][1] = i
  IN  SelectSeq(chunking.chunks, OfDoc)

\* document i has been gone through
Chunked(i) == chunking.pc = "returned" \/ (chunking.pc # "idle" /\ i < chunking.doc)

\* the chunks of document i lie as windows of chunk_size tokens, each
\* starting chunk_size - overlap tokens after the one before
Layout(i) ==
  LET fr   == FragmentsOf(i)
      n    == chunking.documents[i].tokens
      step == chunking.chunk_size - chunking.overlap
  IN  /\ \A j \in 1..Len(fr) :
           LET a == (j - 1) * step
               b == Min(a + chunking.chunk_size, n)
           IN  /\ fr[j].content = TokenWindow(i, a, b)
               /\ fr[j].metadata.token_count = b - a
               /\ j < Len(fr) => (b - a = chunking.chunk_size /\ b < n)
      /\ Chunked(i) =>
           IF n = 0 THEN fr = <<>>
           ELSE /\ fr # <<>>
                /\ fr[Len(fr)].content[Len(fr[Len(fr)].content)] = <<i, n - 1>>
                /\ \A t \in 0..(n - 1) :
                     \E j \in 1..Len(fr), k \in 1..MaxChunkSize :
                       k <= Len(fr[j].content) /\ fr[j].content[k] = <<i, t>>

\* C22: window layout.  With valid parameters, chunk j (from 0) of a
\* document of n >= 1 tokens holds exactly the tokens from j*(chunk_size -
\* overlap) up to, not including, min(j*(chunk_size - overlap) + chunk_size,
\* n); every chunk but the last has chunk_size tokens, the last ends with
\* the last token, token_count is the length of the window, every token is
\* in some chunk, and the call returns.
C22_WindowLayout ==
  /\ [](\A i \in 1..Len(chunking.documents) : Layout(i))
  /\ (chunking.pc \in {"for", "while"}) ~> (chunking.pc = "returned")

\* a document of four tokens, split by 3 with overlap 1, gave the windows
\* [0, 3) and [2, 4)
C22_Witness ==
  /\ chunking.pc = "returned"
  /\ chunking.chunk_size = 3 /\ chunking.overlap = 1
  /\ Len(chunking.documents) = 1
  /\ chunking.documents[1].tokens = 4
  /\ Len(chunking.chunks) = 2
  /\ chunking.chunks[2].content = <<<<1, 2>>, <<1, 3>>>>
  /\ chunking.chunks[2].metadata.token_count = 2

\* C23: the chunks stand in the order of their documents; the chunks of a
\* document carry its filename and page number, and chunk_index 0, 1, 2,
\* ... in order, from 0 again for every document.
C23_MetadataInherited ==
  /\ \A a, b \in 1..Len(chunking.chunks) :
       a < b => chunking.chunks[a].content[1][1] <= chunking.chunks[b].content[1][1]
  /\ \A i \in 1..Len(chunking.documents) :
       LET fr == FragmentsOf(i)
       IN  \A j \in 1..Len(fr) :
             /\ fr[j].metadata.filename = chunking.documents[i].metadata.filename
             /\ fr[j].metadata.page_number
                  = chunking.documents[i].metadata.page_number
             /\ fr[j].metadata.chunk_index = j - 1

\* two pages were chunked, the first into two chunks: the third chunk is
\* chunk 0 of page 2
C23_Witness ==
  /\ chunking.pc = "returned"
  /\ Len(chunking.documents) = 2
  /\ Len(chunking.chunks) = 3
  /\ chunking.chunks[2].metadata.chunk_index = 1
  /\ chunking.chunks[2].metadata.page_number = PyInt(1)
  /\ chunking.chunks[3].metadata.chunk_index = 0
  /\ chunking.chunks[3].metadata.page_number = PyInt(2)

\* C24: single initialization.  A constructor call that returns loads a
\* model exactly when none has returned since the start or the last reset;
\* every further one returns the instance the one before returned, makes no
\* instance and loads no model; what is returned always has its model; a
\* reset leaves neither instance nor model.
C24_SingleInitialization ==
  [][ /\ singleton'.op = "construct" =>
           /\ singleton'.result = singleton'.instance
           /\ singleton'.result # 0 /\ singleton'.model # 0
           /\ IF singleton.returned = 0
              THEN /\ singleton'.models = singleton.models + 1
                   /\ singleton'.model = singleton'.models
              ELSE /\ singleton'.result = singleton.instance
                   /\ singleton'.instances = singleton.instances
                   /\ singleton'.models = singleton.models
                   /\ singleton'.model = singleton.model
      /\ singleton'.op = "reset" =>
           (singleton'.instance = 0 /\ singleton'.model = 0)
    ]_singleton

\* after a reset a second model was loaded, and the constructor has
\* returned twice since: both times the second instance
C24_Witness ==
  /\ singleton.op = "construct"
  /\ singleton.models = 2 /\ singleton.model = 2
  /\ singleton.instances = 2 /\ singleton.result = 2
  /\ singleton.returned = 2

\* the events before event k that emitted a request
EmittedBefore(k) == {j \in 1..(k-1) : evLog[j].emitted = 1}

\* event k belongs to a burst: it follows the event before it by less than
\* the cooldown
InBurst(k) == k > 1 /\ evLog[k].t - evLog[k-1].t < COOLDOWN

\* C25 as stated: every matching event, dropped or not, restarts the timer,
\* and no event of a burst emits a request.
C25_TimerResetsOnEveryEvent ==
  \A k \in 1..Len(evLog) :
    /\ evLog[k].after = evLog[k].t
    /\ InBurst(k) => evLog[k].emitted = 0

\* C25, amended: the timer is the time of the last emitted request.  A
\* dropped event leaves it, and an event that follows an emitted request
\* emits the next one exactly when a cooldown has passed since that request,
\* however close the events between them were.
C25_FixedWindowFromLastRequest ==
  \A k \in 1..Len(evLog) :
    /\ evLog[k].emitted = 0 => evLog[k].after = evLog[k].last
    /\ EmittedBefore(k) # {} =>
         LET j == CHOOSE i \in EmittedBefore(k) :
                    \A h \in EmittedBefore(k) : h <= i
         IN  /\ evLog[k].last = evLog[j].t
             /\ evLog[k].emitted = 1 <=> evLog[k].t - evLog[j].t >= COOLDOWN

\* a burst of three events, each less than a cooldown after the one before:
\* the second is dropped and the third emits a request while the burst lasts
C25_Witness ==
  /\ Len(evLog) >= 3
  /\ InBurst(2) /\ InBurst(3)
  /\ evLog[1].emitted = 1 /\ evLog[2].emitted = 0 /\ evLog[3].emitted = 1

\* a path with the tracked extension: its last four characters are ".pdf"
\* in any letter case
TrackedExtension(path) ==
  LET n == Len(path)
  IN  /\ n >= 4
      /\ path[n-3] = "."
      /\ path[n-2] \in {"p", "P"}
      /\ path[n-1] \in {"d", "D"}
      /\ path[n] \in {"f", "F"}

\* C26: an event emits a request only if it is a creation, modification or
\* deletion of a non-directory path with the tracked extension, and such an
\* event emits one as soon as a cooldown has passed; every other event emits
\* nothing and leaves _last_triggered as it was.
C26_OnlyTrackedEventsEmit ==
  \A k \in 1..Len(evLog) :
    LET e == evLog[k]
        matching == /\ e.event.event_type \in {"created", "modified", "deleted"}
                    /\ ~e.event.is_directory
                    /\ TrackedExtension(e.event.src_path)
    IN  /\ e.emitted = 1 => matching
        /\ ~matching => e.emitted = 0 /\ e.after = e.last
        /\ matching /\ e.t - e.last >= COOLDOWN => e.emitted = 1

\* a PDF was moved a cooldown or more after the last request: nothing was
\* emitted and the timer stayed where the earlier request had set it
C26_Witness ==
  /\ Len(evLog) = 1
  /\ evLog[1].event.event_type = "moved"
  /\ ~evLog[1].event.is_directory
  /\ TrackedExtension(evLog[1].event.src_path)
  /\ evLog[1].last > 0
  /\ evLog[1].t - evLog[1].last >= COOLDOWN
  /\ evLog[1].emitted = 0 /\ evLog[1].after = evLog[1].last

\* C27: status is indexing exactly while the rebuild lock is held.  It
\* becomes indexing in the step that takes the lock, and the step that
\* releases the lock has set it to ready or to error.
C27_IndexingIffLocked ==
  /\ [](index_state.status = "indexing" <=> lock)
  /\ [][ /\ (~lock /\ lock') => index_state'.status = "indexing"
         /\ (lock /\ ~lock') => index_state'.status \in {"ready", "error"}
       ]_vars

\* build_index has raised in its worker thread and the coroutine has not
\* resumed yet: the lock is held, the status is indexing, the pipeline of
\* the generation before is still published
C27_Witness ==
  /\ lock
  /\ index_state.status = "indexing"
  /\ bpc = "failed"
  /\ rag_pipeline.exists

\* what /status would report of a pipeline: its documents, its chunks and
\* the width of its vectors
Generation(p) == <<Cardinality(p.metadata), NumChunks(p.metadata), Dim>>

Reported(st) == <<st.doc_count, st.chunk_count, st.embedding_dim>>

\* C28: while the server runs with status ready, a pipeline is published,
\* last_error is empty and doc_count, chunk_count and embedding_dim are
\* those of the published pipeline.
C28_ReadyDescribesPublished ==
  (phase = "running" /\ index_state.status = "ready") =>
    /\ rag_pipeline.exists
    /\ index_state.last_error = ""
    /\ Reported(index_state) = Generation(rag_pipeline)

\* metadata entry `entry` is the one that was added with the row `row`
Describes(d, row, entry) ==
  \E p \in Pairs(d) : row = normalize_vectors(p[1]) /\ entry = p[2]

\* what a store holds
Content(s) == <<s.index, s.metadata>>

\* C29: whatever has been called on a store and whether it failed, the store
\* holds as many metadata entries as rows, entry i is the one added with
\* row i, and the dimension of its index is the dimension of the store; and
\* a load that fails leaves what the store held.
C29_IndexConsistent ==
  /\ [](/\ Len(store.metadata) = Len(store.index.rows)
        /\ store.index.exists => store.index.d = store.embedding_dim
        /\ \A i \in 1..Min(Len(store.metadata), Len(store.index.rows)) :
             Describes(store.index.d, store.index.rows[i], store.metadata[i]))
  /\ [][ (ret'.op = "load" /\ ret'.error # "" /\ ret' # ret)
           => Content(store') = Content(store) ]_vars

\* the pages of a file that carry text: each file of the model has one
PagesOf(f) == {PageOf(1)}

\* main.py 343-352: the entries of one filename, grouped
DocumentStats(f) ==
  [filename |-> f, page_count |-> Cardinality(PagesOf(f)),
   chunk_count |-> ChunksOf(f)]

\* the answer for a list of metadata entries, given by the files they are
\* of; `fallback` stands in for a total of 0 (main.py 359-362)
KnowledgeBaseOutput(docs, fallback) ==
  [total_document_count |-> Cardinality(docs),
   total_chunk_count |-> IF NumChunks(docs) # 0 THEN NumChunks(docs)
                         ELSE fallback,
   documents |-> {DocumentStats(f) : f \in docs}]

\* _get_knowledge_base_details (main.py 315-365): the sidecar at the index
\* path is read and grouped; a sidecar that is missing or cannot be parsed
\* gives no documents.
get_knowledge_base_details ==
  IF diskMeta.st = "ok"
  THEN KnowledgeBaseOutput(diskMeta.docs, index_state.chunk_count)
  ELSE KnowledgeBaseOutput({}, index_state.chunk_count)

\* C30: while the server runs, the per-document statistics are the grouping
\* by filename of the metadata of the published pipeline.
C30_StatisticsDescribePublished ==
  phase = "running" =>
    get_knowledge_base_details
      = KnowledgeBaseOutput(rag_pipeline.metadata, NumChunks(rag_pipeline.metadata))

====
